---- MODULE Spec2Model ----
(***************************************************************************)
(* Model of the GOG Galaxy integrations Python API core:                   *)
(*   - galaxy/api/importer.py   Importer (start, _import_elements,         *)
(*                              _import_element) on top of the task        *)
(*                              manager of galaxy/task_manager.py          *)
(*   - galaxy/api/jsonrpc.py    Connection (run, _handle_input,            *)
(*                              _parse_message, _handle_response,          *)
(*                              _handle_notification, _handle_request,     *)
(*                              send_request)                              *)
(* The event loop is single threaded and cooperative: every action below   *)
(* is the code that runs between two suspension points of one coroutine.   *)
(***************************************************************************)
EXTENDS Integers, Sequences, FiniteSets, TLC

VARIABLES
    \* ---- Importer (importer.py) and its callers ----
    import_in_progress, \* Importer._import_in_progress
    call,               \* the start(ids) calls: position, how start() ended, ids
                        \* (a local of start() and of the import task), raised
                        \* exception and the Response written for the
                        \* start_<feature>_import request
    task,               \* the import task of each accepted call (_import_elements)
    fetch,              \* the _import_element coroutine of each id of each run
    tm_tasks,           \* TaskManager._tasks of the Importer's task manager
    log,                \* callbacks invoked, in order, since
                        \* the latest accepted start() (older history is dropped)
    variant,            \* the class of the Importer: "base", "collection"
                        \* (CollectionImporter) or "sync" (SynchroneousImporter)
    cancellation,       \* per import task: "no", "requested" (task.cancel() was
                        \* called, CancelledError not yet thrown) or "delivered"
    sequence            \* CollectionImporter: per id of each run, the batches the
                        \* lazy sequence yielded and whether it raised

VARIABLES
    \* ---- Connection (jsonrpc.py) ----
    active,             \* Connection._active
    run_pc,             \* run(): "top" (not started, or in sleep(0)), "read" (in
                        \* readline), "returned", "raised"
    run_exc,            \* the exception that ended run(), if any
    last_request_id,    \* Connection._last_request_id
    requests_futures,   \* Connection._requests_futures: id -> future
    requests_sensitive, \* Connection._requests_futures: id -> sensitive_params
    caller,             \* what the caller of send_request(id) was resumed with
    conn_tasks,         \* Connection._task_manager._tasks: handler tasks by task id
    task_counter,       \* Connection._task_manager._task_counter
    written,            \* everything written to the peer, in order
    nread,              \* lines read so far
    run_data,           \* run(): data, the line last returned by readline()
    answered,           \* history: per outbound id, the first Response read for it
    at_close            \* history: how many deferred Requests were being handled when
                        \* a close() that is watched closed the connection (0 before)

VARIABLES
    \* ---- TaskManager (task_manager.py) with its callers ----
    mgr_tasks,          \* TaskManager._tasks: the ids registered
    mgr_task_counter,   \* TaskManager._task_counter: the next id
    mgr_task,           \* every asyncio task created by create_task, by id
    wait_pc,            \* wait(): "idle" (not called), "check" (at the loop head),
                        \* "gather" (in await gather), "returned"
    wait_gather,        \* wait(): the tasks handed to gather
    cancel_called,      \* history: cancel() was called
    wait_after_cancel   \* history: wait() was called after cancel()

VARIABLES
    \* ---- Plugin (plugin.py): closing and the shutdown request ----
    plugin_active,      \* Plugin._active
    internal_tasks,     \* the tasks of Plugin._internal_task_manager, by description
    shutdown_pc         \* the handler task of the shutdown request: "idle" (no
                        \* request yet), "created", "wait_external", "wait_internal",
                        \* "answered"

VARIABLES
    \* ---- StreamLineReader (reader.py) over its StreamReader ----
    stream,             \* history: all the bytes the peer sends before it closes
    unread,             \* the bytes the StreamReader has not delivered yet
    reads,              \* history: the chunks read() returned
    buffer,             \* StreamLineReader._buffer
    processed_buffer_it, \* StreamLineReader._processed_buffer_it
    readline_pc,        \* readline(): "idle" (not called), "loop" (at `while True`),
                        \* "read" (in `await self._reader.read`), "find" (after it)
    returned            \* history: the values readline() returned

VARIABLES
    \* ---- Plugin (plugin.py): the handshake and the tick loop ----
    handshake,          \* handshake_complete(): "none" (not called), "returned", "raised"
    tick_log            \* history: the tick() calls: whether the plugin was active,
                        \* whether the cache had been initialized, whether tick() raised

runVars == <<variant, cancellation, sequence>>
impVars == <<import_in_progress, call, task, fetch, tm_tasks, log, runVars>>
connVars == <<active, run_pc, run_exc, last_request_id, requests_futures, requests_sensitive, caller,
              conn_tasks, task_counter, written, nread, run_data, answered, at_close>>
mgrVars == <<mgr_tasks, mgr_task_counter, mgr_task, wait_pc, wait_gather, cancel_called,
             wait_after_cancel>>
plugVars == <<plugin_active, internal_tasks, shutdown_pc>>
VARIABLES
    \* ---- Plugin (plugin.py): feature detection ----
    class_dict,         \* the names defined in the concrete plugin class, type(self).__dict__
    base_dict,          \* the names a class between it and Plugin overrides
    dict_at_init,       \* history: class_dict when the plugin was constructed
    features,           \* Plugin._features
    set_order,          \* the order in which the set _features iterates
    capabilities        \* history: the results returned to get_capabilities requests

VARIABLES
    \* ---- _parse_message (jsonrpc.py 285-300) applied to one line ----
    parse_data,         \* data: the line given to _parse_message
    parse_result        \* what the call returned or raised; Unparsed before it

codecVars == <<parse_data, parse_result>>
VARIABLES
    \* ---- Plugin (plugin.py): wait_closed() and repeated close() calls ----
    wait_closed_pc,     \* wait_closed(): "idle" (not called), "external", "internal",
                        \* "connection" (in the wait on that manager), "returned"
    closed_again,       \* history: the close() calls made on a closed plugin
    wrapper             \* per task running handle() of an external method that took
                        \* its first step: the external task it awaits, and whether
                        \* the handler has created its import task
exitVars == <<wait_closed_pc, closed_again, wrapper>>
rdVars == <<stream, unread, reads, buffer, processed_buffer_it, readline_pc, returned>>
tickVars == <<handshake, tick_log>>
featVars == <<class_dict, base_dict, dict_at_init, features, set_order, capabilities>>
libVars == <<rdVars, tickVars, featVars, codecVars, exitVars>>
vars == <<impVars, connVars, mgrVars, plugVars, libVars>>

(***************************************************************************)
(* Bounds                                                                  *)
(***************************************************************************)
MaxCalls == 2      \* start() calls issued on the Importer
MaxIds == 2        \* longest ids list passed to start()

MaxRequests == 2   \* send_request() calls made on the Connection
MaxReads == 2      \* lines read from the peer
MaxTasks == 2      \* tasks created in the TaskManager
MaxBatches == 2    \* batches the lazy sequences of one run yield in total
MaxBytes == 6      \* bytes the peer sends before it closes the stream
MaxEofs == 2       \* readline() calls that find the stream at its end
MaxTicks == 2      \* tick() calls of one tick loop
MaxOverrides == 2  \* names the concrete plugin class defines
MaxCloses == 2     \* close() calls made on a plugin that is closed already

Calls == 1..MaxCalls
Ids == 1..MaxIds
\* ids lists of N distinct ids, 0 <= N <= MaxIds (ids are interchangeable)
IdLists == {[k \in 1..n |-> k] : n \in 0..MaxIds}

(***************************************************************************)
(* Exceptions and wire errors (jsonrpc.py 15-68, errors.py)                *)
(***************************************************************************)
\* An exception object. cls is its class; code and message are the
\* attributes of a JsonRpcError, str is its string form (str(e)).
\* data is the JsonRpcError's data attribute (None unless given)
NoData == "null"
Exc(cls, code, message, str) ==
    [cls |-> cls, code |-> code, message |-> message, str |-> str, data |-> NoData]
WithData(e, d) == [e EXCEPT !.data = d]
NoExc == Exc("none", 0, "", "")

BackendError == Exc("ApplicationError", 4, "Backend error", "")
ImportInProgress == Exc("ApplicationError", 600, "Import already in progress", "")
RuntimeError == Exc("Exception", 0, "", "boom")
NotImplementedError == Exc("NotImplementedError", 0, "", "")
CancelledError == Exc("CancelledError", 0, "", "")

\* isinstance(e, JsonRpcError): ApplicationError and the protocol errors
IsJsonRpcError(e) == e.cls \in {"JsonRpcError", "ApplicationError"}
IsApplicationError(e) == e.cls = "ApplicationError"

\* JsonRpcError.json(): the error member of an error Response
WireError(code, message, data) == [code |-> code, message |-> message, data |-> data]
Json(e) == WireError(e.code, e.message, e.data)
MethodNotFound == WireError(-32601, "Method not found", NoData)
Aborted == WireError(-32001, "Method aborted", NoData)
UnknownError(data) == WireError(0, "Unknown error", data)
NoError == WireError(0, "", NoData)

(***************************************************************************)
(* Importer (importer.py 9-69)                                             *)
(***************************************************************************)
\* One callback invocation. flag is the value of _import_in_progress the
\* callback could observe while it ran; responded (history): the Response of
\* the run's start request had been written by then.
Event(ev, run, id, err) ==
    [ev |-> ev, run |-> run, id |-> id, err |-> err, flag |-> import_in_progress,
     responded |-> call[run].pc = "responded"]

\* What an awaited coroutine of the integration (prepare_context, get) does:
\* it returns a value or raises.
Return == [kind |-> "return", exc |-> NoExc, value |-> "null"]
Returning(v) == [kind |-> "return", exc |-> NoExc, value |-> v]
Raise(e) == [kind |-> "raise", exc |-> e, value |-> "null"]
\* get(id, context): a value, an ApplicationError or any other exception
GetOutcomes == {Return, Raise(BackendError), Raise(RuntimeError)}
\* prepare_context(ids) raising: an ApplicationError, the base class's
\* NotImplementedError or any other exception
PrepareExceptions == {BackendError, NotImplementedError, RuntimeError}

\* Mutant: start() without the in-progress guard
StartRejects_Never == FALSE

\* start(): `if self._import_in_progress: raise ImportInProgress()`
StartRejects == import_in_progress

\* Mutant: start() without the `except:` that resets the flag
FlagAfterPrepareFailure_StaysSet == TRUE

\* start(): the bare `except:` resets the flag when prepare_context raised
FlagAfterPrepareFailure == FALSE

\* Mutant: _import_element() that only logs an unexpected exception
ImportElementNotifications_LogOnly(r, i, out) ==
    IF out.kind = "return"
        THEN <<Event("success", r, i, NoError)>>
    ELSE IF IsApplicationError(out.exc)
        THEN <<Event("failure", r, i, Json(out.exc))>>
    ELSE <<>>

\* _import_element(): the callbacks one per-id fetch ends with
ImportElementNotifications(r, i, out) ==
    IF out.kind = "return"
        THEN <<Event("success", r, i, NoError)>>
    ELSE IF IsApplicationError(out.exc)
        THEN <<Event("failure", r, i, Json(out.exc))>>
    ELSE IF out.exc.cls = "CancelledError"
        THEN <<>>
    ELSE <<Event("failure", r, i, UnknownError(NoData))>>

\* Mutant: a wait that returns when the first per-id fetch has ended
GatherReady_First(r) == \E i \in DOMAIN fetch[r] : fetch[r][i] = "done"

\* `await asyncio.gather(*imports)` returns once every per-id fetch has ended
GatherReady(r) == \A i \in DOMAIN fetch[r] : fetch[r][i] = "done"

\* _import_elements() after the gather: finished notification, then complete()
FinishedCallbacks(r) ==
    <<Event("finished", r, 0, NoError), Event("complete", r, 0, NoError)>>

\* The tail of _import_elements(): the callbacks, the `finally` that clears the
\* flag, and task_wrapper's `finally` that deregisters the task.
ImportElementsEnd(r) ==
    /\ log' = log \o FinishedCallbacks(r)
    /\ import_in_progress' = FALSE
    /\ task' = [task EXCEPT ![r] = "done"]
    /\ tm_tasks' = tm_tasks \ {r}

\* Connection._send_response / _send_error: the Response envelope written
\* (the result of a start_<feature>_import request is null)
NoResponse == [type |-> "none", error |-> NoError]
ResultResponse == [type |-> "result", error |-> NoError]
ErrorResponse(err) == [type |-> "error", error |-> err]

\* Connection._handle_request.handle(): the Response a deferred handler's
\* exception is turned into
ErrorResponseOf_AllUnknown(e) == UnknownError(e.str)
ErrorResponseOf(e) ==
    IF e.cls = "NotImplementedError" THEN MethodNotFound
    ELSE IF IsJsonRpcError(e) THEN Json(e)
    ELSE IF e.cls = "CancelledError" THEN Aborted
    ELSE UnknownError(e.str)

ImporterInit ==
    /\ import_in_progress = FALSE
    /\ call = [r \in Calls |-> [pc |-> "idle", how |-> "", ids |-> <<>>, exc |-> NoExc, resp |-> NoResponse]]
    /\ task = [r \in Calls |-> "none"]
    /\ fetch = [r \in Calls |-> <<>>]
    /\ tm_tasks = {}
    /\ log = <<>>
    /\ cancellation = [r \in Calls |-> "no"]
    /\ sequence = [r \in Calls |-> <<>>]

\* The Importer is an instance of the base class (plugin.py 56-115)
BaseImporter == variant = "base"
\* The Importer is a CollectionImporter (plugin.py 116-126)
CollectionImporter == variant = "collection"
\* The Importer is of the base class or a SynchroneousImporter
GatherOrLoop == variant \in {"base", "sync"}

\* start(ids) up to its first suspension point, `await self._prepare_context(ids)`
Start(r, ids) ==
    /\ call[r].pc = "idle"
    /\ \A q \in Calls : q < r => call[q].pc # "idle"    \* calls are numbered in order of issue
    /\ IF StartRejects
         THEN /\ call' = [call EXCEPT ![r].pc = "raised", ![r].how = "rejected",
                                      ![r].exc = ImportInProgress]
              /\ UNCHANGED <<import_in_progress, log>>
         ELSE /\ call' = [call EXCEPT ![r].pc = "prepare", ![r].ids = ids]
              /\ import_in_progress' = TRUE
              /\ log' = <<>>
    /\ UNCHANGED <<task, fetch, tm_tasks, runVars, connVars, mgrVars, plugVars, libVars>>

\* prepare_context returned: start() hands _import_elements to the task manager
PrepareReturns(r) ==
    /\ call[r].pc = "prepare"
    /\ call' = [call EXCEPT ![r].pc = "returned", ![r].how = "accepted"]
    /\ task' = [task EXCEPT ![r] = "created"]
    /\ tm_tasks' = tm_tasks \cup {r}
    /\ UNCHANGED <<import_in_progress, fetch, log, runVars, connVars, mgrVars, plugVars, libVars>>

\* prepare_context raised: start() resets the flag and re-raises
PrepareRaises(r, e) ==
    /\ call[r].pc = "prepare"
    /\ call' = [call EXCEPT ![r].pc = "raised", ![r].how = "prepare_failed",
                            ![r].ids = <<>>, ![r].exc = e]
    /\ import_in_progress' = FlagAfterPrepareFailure
    /\ UNCHANGED <<task, fetch, tm_tasks, log, runVars, connVars, mgrVars, plugVars, libVars>>

\* The request handler of start_<feature>_import resumes after start() and
\* writes the Response
\* The event loop runs ready callbacks in the order they were scheduled: the
\* import task, created before start() returned, takes its first step before
\* the handler that awaited start() is resumed
Respond(r) ==
    /\ call[r].pc \in {"returned", "raised"}
    /\ task[r] # "created"
    /\ call' = [call EXCEPT ![r].pc = "responded",
                            ![r].resp = IF call[r].pc = "returned"
                                          THEN ResultResponse
                                          ELSE ErrorResponse(ErrorResponseOf(call[r].exc))]
    /\ UNCHANGED <<import_in_progress, task, fetch, tm_tasks, log, runVars, connVars, mgrVars, plugVars, libVars>>

\* Mutant: a SynchroneousImporter that starts every fetch at once
FetchesAtStart_AllAtOnce(r) == [i \in DOMAIN call[r].ids |-> "pending"]

\* The per-id coroutines after the first step of the import task: gather
\* schedules one task per id (importer.py 46-47); SynchroneousImporter awaits
\* the first id's coroutine and has not created the others (95-96)
FetchesAtStart(r) ==
    [i \in DOMAIN call[r].ids |-> IF variant = "sync" /\ i > 1 THEN "waiting" ELSE "pending"]

\* The lazy sequence of one id: batches yielded so far, and whether it raised
Sequence(yielded, raised) == [yielded |-> yielded, raised |-> raised]

\* First step of the import task: one _import_element coroutine per id is
\* handed to gather; with no ids gather is done at once and the run ends here.
ImportElementsStart(r) ==
    /\ task[r] = "created"
    /\ cancellation[r] = "no"
    /\ IF call[r].ids = <<>>
         THEN /\ ImportElementsEnd(r)
              /\ UNCHANGED <<fetch, sequence>>
         ELSE /\ fetch' = [fetch EXCEPT ![r] = FetchesAtStart(r)]
              /\ sequence' = [sequence EXCEPT ![r] =
                     IF variant = "collection"
                         THEN [i \in DOMAIN call[r].ids |-> Sequence(0, FALSE)]
                         ELSE <<>>]
              /\ task' = [task EXCEPT ![r] = "gather"]
              /\ UNCHANGED <<import_in_progress, tm_tasks, log>>
    /\ UNCHANGED <<call, variant, cancellation, connVars, mgrVars, plugVars, libVars>>

\* The tasks gather created take their first step after the handler of the
\* start request, resumed by the end of start(), has written its Response
FetchRuns(r, i) ==
    /\ task[r] = "gather"
    /\ cancellation[r] # "requested"
    /\ i \in DOMAIN fetch[r]
    /\ fetch[r][i] = "pending"
    /\ variant # "sync" => call[r].pc = "responded"

\* Importer._import_element(id) (32-42): get returned or raised (at once or
\* after having suspended); the outcome is notified
FetchEnds(r, i, out) ==
    /\ variant = "base"
    /\ FetchRuns(r, i)
    /\ fetch' = [fetch EXCEPT ![r][i] = "done"]
    /\ log' = log \o ImportElementNotifications(r, call[r].ids[i], out)
    /\ UNCHANGED <<import_in_progress, call, task, tm_tasks, runVars, connVars, mgrVars, plugVars, libVars>>

\* _import_elements() resumes from the gather
GatherReturns(r) ==
    /\ variant # "sync"
    /\ task[r] = "gather"
    /\ cancellation[r] = "no"
    /\ GatherReady(r)
    /\ ImportElementsEnd(r)
    /\ sequence' = [sequence EXCEPT ![r] = <<>>]      \* the sequences are released
    /\ UNCHANGED <<call, fetch, variant, cancellation, connVars, mgrVars, plugVars, libVars>>

(***************************************************************************)
(* CollectionImporter (importer.py 72-89)                                  *)
(***************************************************************************)
\* CollectionImporter._import_element: `async for element in self._get(...)`
\* got a batch, which is notified at once
RECURSIVE Yielded(_, _)
Yielded(r, n) == IF n = 0 THEN 0 ELSE sequence[r][n].yielded + Yielded(r, n - 1)

SequenceYields(r, i) ==
    /\ variant = "collection"
    /\ FetchRuns(r, i)
    /\ Yielded(r, Len(sequence[r])) < MaxBatches
    /\ sequence' = [sequence EXCEPT ![r][i].yielded = @ + 1]
    /\ log' = log \o <<Event("success", r, call[r].ids[i], NoError)>>
    /\ UNCHANGED <<import_in_progress, call, task, fetch, tm_tasks, variant, cancellation,
                   connVars, mgrVars, plugVars, libVars>>

\* Mutant: the partial-finished callback only after a sequence that did not
\* raise
SequenceEndNotifications_NoneOnFailure(r, id, out) ==
    IF out.kind = "return"
        THEN <<Event("partial_finished", r, id, NoError)>>
        ELSE ImportElementNotifications(r, id, out)

\* CollectionImporter._import_element: what the end of the sequence is
\* notified with: nothing for exhaustion, a failure when it raised, and the
\* `finally` (88-89) in both cases
SequenceEndNotifications(r, id, out) ==
    (IF out.kind = "return" THEN <<>> ELSE ImportElementNotifications(r, id, out))
        \o <<Event("partial_finished", r, id, NoError)>>

\* CollectionImporter._import_element: the sequence is exhausted or raises
SequenceEnds(r, i, out) ==
    /\ variant = "collection"
    /\ FetchRuns(r, i)
    /\ fetch' = [fetch EXCEPT ![r][i] = "done"]
    /\ sequence' = [sequence EXCEPT ![r][i].raised = (out.kind = "raise")]
    /\ log' = log \o SequenceEndNotifications(r, call[r].ids[i], out)
    /\ UNCHANGED <<import_in_progress, call, task, tm_tasks, variant, cancellation,
                   connVars, mgrVars, plugVars, libVars>>

(***************************************************************************)
(* SynchroneousImporter (importer.py 92-102)                               *)
(***************************************************************************)
\* SynchroneousImporter._import_elements: the awaited _import_element of id
\* i is over (its outcome notified, or its cancellation swallowed, 38-39);
\* the loop goes on to the next id, or past its end to the finished
\* notification, complete() and the two `finally`
SyncContinues(r, i, events) ==
    IF i < Len(call[r].ids)
        THEN /\ fetch' = [fetch EXCEPT ![r][i] = "done", ![r][i + 1] = "pending"]
             /\ log' = log \o events
             /\ UNCHANGED <<import_in_progress, task, tm_tasks>>
        ELSE /\ fetch' = [fetch EXCEPT ![r][i] = "done"]
             /\ log' = log \o events \o FinishedCallbacks(r)
             /\ import_in_progress' = FALSE
             /\ task' = [task EXCEPT ![r] = "done"]
             /\ tm_tasks' = tm_tasks \ {r}

\* get of the id in flight returned or raised
SyncFetchEnds(r, i, out) ==
    /\ variant = "sync"
    /\ FetchRuns(r, i)
    /\ SyncContinues(r, i, ImportElementNotifications(r, call[r].ids[i], out))
    /\ UNCHANGED <<call, runVars, connVars, mgrVars, plugVars, libVars>>

(***************************************************************************)
(* Cancellation of import tasks (task_manager.py 39-41)                    *)
(***************************************************************************)
Cancellable == {r \in tm_tasks : task[r] \in {"created", "gather"} /\ cancellation[r] # "requested"}

\* TaskManager.cancel() on the Importer's task manager: task.cancel() on
\* every registered task that is not done
CancelImports ==
    /\ Cancellable # {}
    /\ cancellation' = [r \in Calls |-> IF r \in Cancellable THEN "requested" ELSE cancellation[r]]
    /\ UNCHANGED <<import_in_progress, call, task, fetch, tm_tasks, log, variant, sequence,
                   connVars, mgrVars, plugVars, libVars>>

\* The first step of an import task cancelled before it: the coroutine never
\* starts, so neither the `finally` of _import_elements nor the one of
\* task_wrapper runs
ImportNeverRuns(r) ==
    /\ task[r] = "created"
    /\ cancellation[r] = "requested"
    /\ task' = [task EXCEPT ![r] = "cancelled"]
    /\ cancellation' = [cancellation EXCEPT ![r] = "delivered"]
    /\ UNCHANGED <<import_in_progress, call, fetch, tm_tasks, log, variant, sequence,
                   connVars, mgrVars, plugVars, libVars>>

\* The fetches a cancelled gather still had to wait for, those that had
\* entered _import_element's try when `started`
Interrupted(r) == {i \in DOMAIN fetch[r] : fetch[r][i] # "done"}
RECURSIVE PartialFinished(_, _)
PartialFinished(r, is) ==
    IF is = {} THEN <<>>
    ELSE LET i == CHOOSE j \in is : \A k \in is : j <= k
         IN  <<Event("partial_finished", r, call[r].ids[i], NoError)>> \o PartialFinished(r, is \ {i})

\* Importer / CollectionImporter: the task is cancelled while in gather.
\* gather cancels its children: one that has not started never runs; one
\* suspended in get swallows CancelledError (38-39, 83-84; the `finally` of
\* CollectionImporter still notifies). CancelledError is then raised at the
\* `await asyncio.gather` (50-53).
ImportCancelled(r, started) ==
    /\ variant # "sync"
    /\ task[r] = "gather"
    /\ cancellation[r] = "requested"
    /\ (started => call[r].pc = "responded")
    /\ (~started => \A i \in DOMAIN fetch[r] :
                        fetch[r][i] = "pending" /\ (variant = "collection" => sequence[r][i].yielded = 0))
    /\ log' = log \o (IF variant = "collection" /\ started
                          THEN PartialFinished(r, Interrupted(r)) ELSE <<>>)
    /\ fetch' = [fetch EXCEPT ![r] = [i \in DOMAIN fetch[r] |-> "done"]]
    /\ import_in_progress' = FALSE
    /\ task' = [task EXCEPT ![r] = "done"]
    /\ tm_tasks' = tm_tasks \ {r}
    /\ cancellation' = [cancellation EXCEPT ![r] = "delivered"]
    /\ sequence' = [sequence EXCEPT ![r] = <<>>]
    /\ UNCHANGED <<call, variant, connVars, mgrVars, plugVars, libVars>>

\* SynchroneousImporter: CancelledError is raised at `await self._get` of the
\* id in flight, inside _import_element's try, and swallowed there (38-39)
SyncFetchCancelled(r, i) ==
    /\ variant = "sync"
    /\ task[r] = "gather"
    /\ cancellation[r] = "requested"
    /\ i \in DOMAIN fetch[r]
    /\ fetch[r][i] = "pending"
    /\ SyncContinues(r, i, <<>>)
    /\ cancellation' = [cancellation EXCEPT ![r] = "delivered"]
    /\ UNCHANGED <<call, variant, sequence, connVars, mgrVars, plugVars, libVars>>

\* The steps of the import task of an Importer or a SynchroneousImporter
RunSteps(r) ==
    \/ ImportElementsStart(r)
    \/ \E i \in Ids, out \in GetOutcomes : FetchEnds(r, i, out)
    \/ GatherReturns(r)
    \/ \E i \in Ids, out \in GetOutcomes : SyncFetchEnds(r, i, out)
    \/ ImportNeverRuns(r)
    \/ \E started \in BOOLEAN : ImportCancelled(r, started)
    \/ \E i \in Ids : SyncFetchCancelled(r, i)

\* The steps of the import task of a CollectionImporter that end: the
\* sequences end, every step but a further batch
CollectionSteps(r) ==
    \/ ImportElementsStart(r)
    \/ \E i \in Ids, out \in GetOutcomes : SequenceEnds(r, i, out)
    \/ GatherReturns(r)
    \/ ImportNeverRuns(r)
    \/ \E started \in BOOLEAN : ImportCancelled(r, started)

StartSteps(r) ==
    \/ PrepareReturns(r)
    \/ \E e \in PrepareExceptions : PrepareRaises(r, e)
    \/ Respond(r)

\* Importer and SynchroneousImporter, with cancellation
RunsNext ==
    \/ \E r \in Calls, ids \in IdLists : Start(r, ids)
    \/ \E r \in Calls : StartSteps(r)
    \/ \E r \in Calls : RunSteps(r)
    \/ CancelImports

\* One run of a CollectionImporter, with cancellation
CollectionNext ==
    \/ \E ids \in IdLists : Start(1, ids)
    \/ StartSteps(1)
    \/ CollectionSteps(1)
    \/ \E i \in Ids : SequenceYields(1, i)
    \/ CancelImports

ImpNext ==
    \/ \E r \in Calls, ids \in IdLists : Start(r, ids)
    \/ \E r \in Calls : PrepareReturns(r)
    \/ \E r \in Calls, e \in PrepareExceptions : PrepareRaises(r, e)
    \/ \E r \in Calls : Respond(r)
    \/ \E r \in Calls : ImportElementsStart(r)
    \/ \E r \in Calls, i \in Ids, out \in GetOutcomes : FetchEnds(r, i, out)
    \/ \E r \in Calls : GatherReturns(r)


(***************************************************************************)
(* Importer: properties                                                    *)
(***************************************************************************)
\* start() call r got past the in-progress guard
PassedGuard(r) == call[r].pc = "prepare" \/ call[r].how \in {"accepted", "prepare_failed"}
\* r is the latest call that got past the guard: log holds its history
Latest(r) == PassedGuard(r) /\ \A q \in Calls : q > r => ~PassedGuard(q)
IsOutcome(e) == e.ev \in {"success", "failure"}
LogAt(r, evs) == {k \in DOMAIN log : log[k].run = r /\ log[k].ev \in evs}
OutcomesOf(r, id) == {k \in LogAt(r, {"success", "failure"}) : log[k].id = id}
IdsOf(r) == {call[r].ids[i] : i \in DOMAIN call[r].ids}

\* C1: a start() call made while the in-progress flag of an earlier accepted
\* call is still set (its context preparation suspended, or its import task
\* not yet ended) raises ImportInProgress (code 600) and changes nothing
\* else: no task is created or registered, no callback is invoked, the flag
\* stays set.
C1_SecondStartFailsFast ==
    [][\A r \in Calls :
          (call[r].pc = "idle" /\ call'[r].pc # "idle" /\ import_in_progress)
          => /\ call'[r].pc = "raised"
             /\ call'[r].exc = ImportInProgress
             /\ call'[r].exc.code = 600
             /\ import_in_progress'
             /\ task' = task /\ fetch' = fetch /\ tm_tasks' = tm_tasks /\ log' = log
             /\ \A q \in Calls \ {r} : call'[q] = call[q]]_vars

\* C1 witness: a call was rejected while the accepted call's context
\* preparation is still suspended
C1_Witness ==
    \E r, q \in Calls : call[r].how = "rejected" /\ call[q].pc = "prepare"

\* C2: in a run of the base Importer every id whose fetch has ended has
\* exactly one outcome notification (success or failure), every other id has
\* none, so a run that has ended with N ids has emitted exactly N outcome
\* notifications, one per id, whatever the other ids' fetches did.
C2_OneOutcomePerId ==
    \A r \in Calls : Latest(r) =>
        /\ \A k \in DOMAIN log : log[k].run = r
        /\ \A k \in LogAt(r, {"success", "failure"}) : log[k].id \in IdsOf(r)
        /\ \A i \in DOMAIN call[r].ids :
              Cardinality(OutcomesOf(r, call[r].ids[i])) =
                  IF i \in DOMAIN fetch[r] /\ fetch[r][i] = "done" THEN 1 ELSE 0
        /\ task[r] = "done" =>
              Cardinality(LogAt(r, {"success", "failure"})) = Len(call[r].ids)

\* C2 witness: a run with two ids has ended, one id succeeded and the other
\* failed
C2_Witness ==
    \E r \in Calls :
        /\ task[r] = "done" /\ Len(call[r].ids) = 2
        /\ LogAt(r, {"success"}) # {} /\ LogAt(r, {"failure"}) # {}

\* C3: a run that has ended emitted exactly one finished notification, after
\* all its per-id outcome notifications; complete() ran exactly once, right
\* after it; and the flag was still set while complete() ran and stays set
\* from the accepted start until then.
C3_FinishedOnceAndLast ==
    \A r \in Calls : Latest(r) =>
        LET fin == LogAt(r, {"finished"})
            com == LogAt(r, {"complete"})
            out == LogAt(r, {"success", "failure"})
        IN  /\ Cardinality(fin) = (IF task[r] = "done" THEN 1 ELSE 0)
            /\ Cardinality(com) = (IF task[r] = "done" THEN 1 ELSE 0)
            /\ \A f \in fin :
                  /\ \A o \in out : o < f
                  /\ Cardinality(out) = Len(call[r].ids)
                  /\ \A c \in com : c = f + 1
            /\ \A c \in com : log[c].flag
            /\ (com = {} /\ call[r].how # "prepare_failed") => import_in_progress
            /\ task[r] = "done" => ~import_in_progress

\* C3 witness: a run with two ids has ended
C3_Witness ==
    \E r \in Calls :
        /\ task[r] = "done" /\ Len(call[r].ids) = 2 /\ ~import_in_progress
        /\ Len(log) = 4 /\ log[3].ev = "finished" /\ log[4].ev = "complete"

\* What C4 has in common with its amended form: after prepare_context raised,
\* the flag is clear (until a later call passes the guard), no import task
\* exists or is registered and no callback was invoked for the call.
PrepareFailureLeavesNothing(r) ==
    /\ (\A q \in Calls : q > r => ~PassedGuard(q)) => ~import_in_progress
    /\ call[r].pc \in {"raised", "responded"}
    /\ task[r] = "none" /\ fetch[r] = <<>> /\ r \notin tm_tasks
    /\ \A k \in DOMAIN log : log[k].run # r

DigitChars == <<"0", "1", "2", "3", "4", "5", "6", "7", "8", "9">>
RECURSIVE Str(_)
Str(n) == IF n < 10 THEN <<DigitChars[n + 1]>>
          ELSE Str(n \div 10) \o <<DigitChars[(n % 10) + 1]>>
IsDigits(s) == s # <<>> /\ \A k \in DOMAIN s : \E d \in DOMAIN DigitChars : DigitChars[d] = s[k]
DigitValue(c) == (CHOOSE d \in DOMAIN DigitChars : DigitChars[d] = c) - 1
RECURSIVE DigitsValue(_)
DigitsValue(s) == IF s = <<>> THEN 0
                  ELSE 10 * DigitsValue(SubSeq(s, 1, Len(s) - 1)) + DigitValue(s[Len(s)])

\* The value of an `id` member: a JSON string, a JSON number or null/absent
StrId(s) == [t |-> "str", s |-> s, n |-> 0]
NumId(n) == [t |-> "num", s |-> <<>>, n |-> n]
NullId == [t |-> "null", s |-> <<>>, n |-> 0]

ValueError == Exc("Exception", 0, "", "ValueError")
TypeError == Exc("Exception", 0, "", "TypeError")
AttributeError == Exc("Exception", 0, "", "AttributeError")
UnboundLocalError == Exc("Exception", 0, "", "UnboundLocalError")
NameError == Exc("Exception", 0, "", "NameError")
InvalidStateError == Exc("Exception", 0, "", "InvalidStateError")
ParseError == Exc("JsonRpcError", -32700, "Parse error", "")
InvalidRequest == Exc("JsonRpcError", -32600, "Invalid Request", "")
InvalidParams == Exc("JsonRpcError", -32602, "Invalid params", "")

\* int(response.id): the number, the value of a string of digits, ValueError
\* for another string, TypeError for None
IntOf(id) ==
    IF id.t = "num" THEN [exc |-> NoExc, n |-> id.n]
    ELSE IF id.t = "str"
        THEN IF IsDigits(id.s) THEN [exc |-> NoExc, n |-> DigitsValue(id.s)]
             ELSE [exc |-> ValueError, n |-> 0]
    ELSE [exc |-> TypeError, n |-> 0]

\* The `error` member of a Response: an object with any of code, message, data
ErrorObject(keys, code, message, data) ==
    [keys |-> keys, code |-> code, message |-> message, data |-> data]
EmptyObject == ErrorObject({}, 0, "", NoData)
\* The `params` member: a mapping (its keyword names) or not a mapping
Params(mapping, names) == [mapping |-> mapping, names |-> names]
EmptyParams == Params(TRUE, {})

\* A JSON object read from the peer: the members present (keys) and their values
Envelope(keys, jsonrpc, id, method, params, result, error) ==
    [keys |-> keys, jsonrpc |-> jsonrpc, id |-> id, method |-> method,
     params |-> params, result |-> result, error |-> error]
NoEnvelope == Envelope({}, "", NullId, "", EmptyParams, "null", EmptyObject)

\* A line returned by readline(): a JSON object, text that is not JSON, JSON
\* that is not an object (array, number, string, null), or an empty line
ObjectLine(env) == [kind |-> "object", env |-> env]
MalformedLine == [kind |-> "malformed", env |-> NoEnvelope]
NonObjectLine == [kind |-> "nonobject", env |-> NoEnvelope]
EmptyLine == [kind |-> "empty", env |-> NoEnvelope]

(***************************************************************************)
(* Message codec (jsonrpc.py 70-71, 285-300)                               *)
(***************************************************************************)
\* Python values of a `result` member: None for JSON null, {} when absent
ResultNone == "null"
ResultDefault == "{}"

\* The Request / Response namedtuples with their defaults
Request(env) ==
    [type |-> "Request",
     method |-> env.method,
     params |-> IF "params" \in env.keys THEN env.params ELSE EmptyParams,
     id |-> IF "id" \in env.keys THEN env.id ELSE NullId,
     result |-> ResultDefault, error |-> EmptyObject]
Response(env) ==
    [type |-> "Response",
     method |-> "", params |-> EmptyParams,
     id |-> IF "id" \in env.keys THEN env.id ELSE NullId,
     result |-> IF "result" \in env.keys THEN env.result ELSE ResultDefault,
     error |-> IF "error" \in env.keys THEN env.error ELSE EmptyObject]
NoMessage == [type |-> "none", method |-> "", params |-> EmptyParams, id |-> NullId,
              result |-> ResultDefault, error |-> EmptyObject]

\* A parse that would take every object with `method` for a Request
ParseMessage_MethodFirst(line) ==
    IF "method" \in line.env.keys /\ line.env.keys \subseteq {"jsonrpc", "method", "params", "id", "result", "error"}
        THEN [exc |-> NoExc, msg |-> Request(line.env)]
        ELSE IF line.env.keys \cap {"result", "error"} # {} /\ line.env.keys \subseteq {"jsonrpc", "id", "result", "error"}
            THEN [exc |-> NoExc, msg |-> Response(line.env)]
            ELSE [exc |-> InvalidRequest, msg |-> NoMessage]

\* _parse_message(data): the message, or the exception raised. A JSON value
\* that is not an object has no .get(): AttributeError, which no handler
\* of _parse_message or _handle_input catches.
ParseMessage(line) ==
    IF line.kind = "malformed" THEN [exc |-> ParseError, msg |-> NoMessage]
    ELSE IF line.kind = "nonobject" THEN [exc |-> AttributeError, msg |-> NoMessage]
    ELSE LET env == line.env
             rest == env.keys \ {"jsonrpc"}
         IN  IF "jsonrpc" \notin env.keys \/ env.jsonrpc # "2.0"
                 THEN [exc |-> InvalidRequest, msg |-> NoMessage]
             ELSE IF rest \cap {"result", "error"} # {}
                 THEN IF rest \subseteq {"id", "result", "error"}
                          THEN [exc |-> NoExc, msg |-> Response(env)]
                          ELSE [exc |-> InvalidRequest, msg |-> NoMessage]
             ELSE IF rest \subseteq {"method", "params", "id"} /\ "method" \in rest
                 THEN [exc |-> NoExc, msg |-> Request(env)]
             ELSE [exc |-> InvalidRequest, msg |-> NoMessage]

\* Objects with jsonrpc "2.0" and any of the members id, method, params,
\* result, error and an unknown one; a member that is absent has no value
\* (the placeholders are never read)
MemberNames == {"id", "method", "params", "result", "error", "extra"}
EnvelopesOf(members) ==
    {Envelope({"jsonrpc"} \cup members, "2.0", id, method, ps, result, EmptyObject) :
        id \in IF "id" \in members THEN {NullId, StrId(Str(3)), NumId(3)} ELSE {NullId},
        method \in IF "method" \in members THEN {"ping"} ELSE {""},
        ps \in IF "params" \in members THEN {Params(TRUE, {"x"}), Params(FALSE, {})} ELSE {EmptyParams},
        result \in IF "result" \in members THEN {"a"} ELSE {ResultNone}}
ParseInputs == {ObjectLine(env) : env \in UNION {EnvelopesOf(members) : members \in SUBSET MemberNames}}

\* _parse_message is not called yet
Unparsed == [exc |-> NoExc, msg |-> NoMessage]
CodecInit == parse_data \in ParseInputs /\ parse_result = Unparsed
CodecIdle == parse_data = EmptyLine /\ parse_result = Unparsed

\* _handle_input (191-193): `message = self._parse_message(data)`
Parse ==
    /\ parse_data # EmptyLine
    /\ parse_result = Unparsed
    /\ parse_result' = ParseMessage(parse_data)
    /\ UNCHANGED <<parse_data, impVars, connVars, mgrVars, plugVars, rdVars, tickVars, featVars, exitVars>>

CodecNext == Parse

(***************************************************************************)
(* Log redaction (jsonrpc.py 75-85)                                        *)
(***************************************************************************)
\* A sensitive_params descriptor: False, True, or an iterable of names
SensitiveFalse == [bool |-> TRUE, all |-> FALSE, names |-> {}]
SensitiveTrue == [bool |-> TRUE, all |-> TRUE, names |-> {}]
SensitiveNames(names) == [bool |-> FALSE, all |-> FALSE, names |-> names]
Descriptors == {SensitiveFalse, SensitiveTrue, SensitiveNames({"x"})}
\* The descriptors send_request is called with (Plugin.refresh_credentials
\* passes its caller's value on)
DescriptorsSent == {SensitiveFalse, SensitiveTrue}

\* JSON values that are objects (Python dicts); every other value (a
\* string, null) has no items()
DictValues == {"{}", "{b}"}
ValueAsParams(v) == Params(v \in DictValues, {})

\* anonymise_sensitive_params(params, sensitive_params): the names masked in
\* the log text, or the AttributeError of params.items() on a value that is
\* no dict. False is neither true nor iterable: params is returned as it is.
AnonymiseSensitiveParams(params, sensitive_params) ==
    IF sensitive_params.bool /\ ~sensitive_params.all
        THEN [exc |-> NoExc, masked |-> {}]
    ELSE IF ~params.mapping
        THEN [exc |-> AttributeError, masked |-> {}]
    ELSE [exc |-> NoExc,
          masked |-> IF sensitive_params.bool THEN params.names
                     ELSE params.names \cap sensitive_params.names]

(***************************************************************************)
(* Registries (jsonrpc.py 72, 99-121; filled by plugin.py 130-202, 231-266)*)
(***************************************************************************)
\* Method(callback, signature, immediate, sensitive_params): the signature
\* either takes any keywords (Plugin's wrappers are (*args, **kwargs)) or
\* exactly the named parameters.
Method(immediate, varkw, names) ==
    [immediate |-> immediate, varkw |-> varkw, names |-> names, sensitive_params |-> SensitiveFalse]
Sensitive(method, sensitive_params) == [method EXCEPT !.sensitive_params = sensitive_params]

\* Connection._methods: ping and import_owned_games as Plugin registers
\* them, and get_x (immediate) and fetch_x (deferred, sensitive_params=["x"]),
\* callbacks with the signature (x) registered directly with register_method
methods ==
    [name \in {"ping", "import_owned_games", "start_achievements_import", "get_x", "fetch_x"} |->
        IF name = "ping" THEN Method(TRUE, TRUE, {})
        ELSE IF name \in {"import_owned_games", "start_achievements_import"} THEN Method(FALSE, TRUE, {})
        ELSE IF name = "get_x" THEN Method(TRUE, FALSE, {"x"})
        ELSE Sensitive(Method(FALSE, FALSE, {"x"}), SensitiveNames({"x"}))]
\* Connection._notifications: launch_game as Plugin registers it, and
\* on_event, a callback(x) registered directly as an immediate notification
notifications ==
    [name \in {"launch_game", "on_event"} |->
        IF name = "launch_game" THEN Method(FALSE, TRUE, {}) ELSE Method(TRUE, FALSE, {"x"})]

\* signature.bind(**request.params) succeeds
Binds(method, params) ==
    /\ params.mapping
    /\ method.varkw \/ params.names = method.names

(***************************************************************************)
(* Lines the peer sends                                                    *)
(***************************************************************************)
ResponseIds ==
    {StrId(Str(n)) : n \in 1..MaxRequests} \cup {StrId(Str(7)), StrId(<<"a", "b", "c">>)}
ResponseBodies ==
    {[keys |-> {"result"}, result |-> v, error |-> EmptyObject] : v \in {"a", "{b}"}}
    \cup {[keys |-> {"error"}, result |-> ResultNone, error |-> e] :
            e \in {EmptyObject,
                   ErrorObject({"code"}, 5, "", NoData),
                   ErrorObject({"code", "message", "data"}, 5, "m", "d")}}
    \cup {[keys |-> {"result", "error"}, result |-> "a", error |-> ErrorObject({"code"}, 5, "", NoData)]}
ResponseLines ==
    {ObjectLine(Envelope({"jsonrpc", "id"} \cup b.keys, "2.0", id, "", EmptyParams, b.result, b.error)) :
        id \in ResponseIds, b \in ResponseBodies}
    \cup {ObjectLine(Envelope({"jsonrpc"} \cup b.keys, "2.0", NullId, "", EmptyParams, b.result, b.error)) :
        b \in ResponseBodies}

ParamsSent ==
    {Params(TRUE, {}), Params(TRUE, {"x"}), Params(TRUE, {"y"}), Params(FALSE, {})}
RequestLines ==
    {ObjectLine(Envelope({"jsonrpc", "id", "method", "params"}, "2.0", StrId(Str(3)), m, ps, ResultNone, EmptyObject)) :
        m \in {"ping", "import_owned_games", "get_x", "fetch_x", "unknown"}, ps \in ParamsSent}
    \cup {ObjectLine(Envelope({"jsonrpc", "id", "method"}, "2.0", StrId(Str(3)), "ping", EmptyParams, ResultNone, EmptyObject))}
NotificationLines ==
    {ObjectLine(Envelope({"jsonrpc", "method", "params"}, "2.0", NullId, m, ps, ResultNone, EmptyObject)) :
        m \in {"launch_game", "on_event", "unknown"}, ps \in ParamsSent}
    \cup {ObjectLine(Envelope({"jsonrpc", "id", "method", "params"}, "2.0", NullId, "launch_game",
                              Params(TRUE, {"x"}), ResultNone, EmptyObject))}
\* Envelopes that violate the schema: jsonrpc missing or not "2.0", no
\* method, an unknown member, method together with result
InvalidLines ==
    {ObjectLine(Envelope({"id", "method"}, "", StrId(Str(3)), "ping", EmptyParams, ResultNone, EmptyObject)),
     ObjectLine(Envelope({"jsonrpc", "id", "method"}, "1.0", StrId(Str(3)), "ping", EmptyParams, ResultNone, EmptyObject)),
     ObjectLine(Envelope({"jsonrpc", "id"}, "2.0", StrId(Str(3)), "", EmptyParams, ResultNone, EmptyObject)),
     ObjectLine(Envelope({"jsonrpc", "id", "method", "extra"}, "2.0", StrId(Str(3)), "ping", EmptyParams, ResultNone, EmptyObject)),
     ObjectLine(Envelope({"jsonrpc", "id", "method", "result"}, "2.0", StrId(Str(3)), "ping", EmptyParams, "a", EmptyObject))}
\* A Request and a Notification of methods Plugin registers as deferred
DeferredLines ==
    {ObjectLine(Envelope({"jsonrpc", "id", "method", "params"}, "2.0", StrId(Str(3)), "import_owned_games",
                         Params(TRUE, {}), ResultNone, EmptyObject)),
     ObjectLine(Envelope({"jsonrpc", "method", "params"}, "2.0", NullId, "launch_game",
                         Params(TRUE, {}), ResultNone, EmptyObject))}
\* A Request and a Notification of external methods, which Plugin wraps
\* (plugin.py 140-166, 256-266); the handler of the Request starts an import
ExternalLines ==
    {ObjectLine(Envelope({"jsonrpc", "id", "method", "params"}, "2.0", StrId(Str(3)), "start_achievements_import",
                         Params(TRUE, {"game_ids"}), ResultNone, EmptyObject)),
     ObjectLine(Envelope({"jsonrpc", "method", "params"}, "2.0", NullId, "launch_game",
                         Params(TRUE, {"game_id"}), ResultNone, EmptyObject))}
DispatchLines ==
    RequestLines \cup NotificationLines \cup InvalidLines \cup {MalformedLine, NonObjectLine}
Lines == ResponseLines \cup DispatchLines

(***************************************************************************)
(* Connection (jsonrpc.py 87-346)                                          *)
(***************************************************************************)
\* A message written to the peer (_send_response, _send_error,
\* _send_request). reply_to records what it was written for: a line that
\* failed to parse, an inbound Request, an inbound Notification, or nothing
\* (an outbound Request).
Written(type, id, result, error, reply_to) ==
    [type |-> type, id |-> id, result |-> result, error |-> error, reply_to |-> reply_to,
     cause |-> [kind |-> "none", exc |-> NoExc, value |-> "null"]]
\* History: the outcome of the deferred handler the message was written for
WrittenFor(out, m) == [m EXCEPT !.cause = out]

\* An asyncio future: pending, or done with a result or an exception
Future(state, result, error) == [state |-> state, result |-> result, error |-> error]
PendingFuture == Future("pending", ResultNone, NoError)

\* A handler task of the Connection's task manager. bound tells whether
\* bound_args was assigned when the handler was set up.
HandlerTask(kind, id, bound) == [kind |-> kind, id |-> id, bound |-> bound]

\* A value the encoder cannot serialise (a set, bytes, an object of a class
\* that is no dataclass or Enum: plugin.py 22-32)
Unencodable == "<object>"
Encodable(value) == value # Unencodable
\* What an immediate callback does, and what an awaited deferred handler does
CallbackOutcomes == {Return, Returning("r"), Raise(RuntimeError)}
HandlerOutcomes ==
    {Return, Returning("r"), Raise(BackendError), Raise(WithData(BackendError, "d")),
     Raise(NotImplementedError), Raise(CancelledError), Raise(RuntimeError)}

\* The effect of dispatching one line: the exception that escapes to run()
\* (if any) and the new values of what the dispatch may change.
Unchanged ==
    [exc |-> NoExc, futures |-> requests_futures, written |-> written,
     tasks |-> conn_tasks, counter |-> task_counter]
Raising(eff, e) == [eff EXCEPT !.exc = e]
\* _send (jsonrpc.py 302-312): the message is encoded and written; the
\* TypeError of encoding a value that is not JSON-serialisable is logged and
\* nothing is written
Send(sent, m) == IF Encodable(m.result) THEN Append(sent, m) ELSE sent
Writing(eff, m) == [eff EXCEPT !.written = Send(@, m)]
\* TaskManager.create_task (task_manager.py 33-37)
CreatingTask(eff, t) ==
    [eff EXCEPT !.tasks = [k \in DOMAIN eff.tasks \cup {eff.counter} |->
                              IF k = eff.counter THEN t ELSE eff.tasks[k]],
                !.counter = @ + 1]

FutureKey_Last(response) == [exc |-> NoExc, n |-> last_request_id]
\* _handle_response: `self._requests_futures.get(int(response.id))`
FutureKey(response) == IntOf(response.id)

\* _handle_response: `if response.error:` (a non-empty error object)
ErrorIsSet(response) == response.error.keys # {}

\* _handle_response: JsonRpcError(error.setdefault("code", 0), ...)
ReconstructError(obj) ==
    WireError(IF "code" \in obj.keys THEN obj.code ELSE 0,
              IF "message" \in obj.keys THEN obj.message ELSE "",
              IF "data" \in obj.keys THEN obj.data ELSE NoData)

\* future.set_result / future.set_exception: InvalidStateError when the
\* future is already done
SettingFuture(eff, n, f) ==
    IF eff.futures[n].state # "pending"
        THEN Raising(eff, InvalidStateError)
        ELSE [eff EXCEPT !.futures[n] = f]

\* _handle_response after the lookup (jsonrpc.py 213-226): _log_error /
\* _log_response anonymise error.data / response.result for the log before
\* the future is settled
SettleWith(sensitive_params, eff, n, response) ==
    IF ErrorIsSet(response)
        THEN LET error == ReconstructError(response.error)
                 logged == AnonymiseSensitiveParams(ValueAsParams(error.data), sensitive_params)
             IN  IF logged.exc # NoExc THEN Raising(eff, logged.exc)
                 ELSE SettingFuture(eff, n, Future("exception", ResultNone, error))
        ELSE LET logged == AnonymiseSensitiveParams(ValueAsParams(response.result), sensitive_params)
             IN  IF logged.exc # NoExc THEN Raising(eff, logged.exc)
                 ELSE SettingFuture(eff, n, Future("result", response.result, NoError))

\* _handle_response (jsonrpc.py 206-226). The entry is looked up with get()
\* and stays in the table.
HandleResponse(response) ==
    LET key == FutureKey(response)
    IN  IF key.exc # NoExc THEN Raising(Unchanged, key.exc)
        ELSE IF key.n \notin DOMAIN requests_futures THEN Unchanged
        ELSE SettleWith(requests_sensitive[key.n], Unchanged, key.n, response)

\* _log_request (jsonrpc.py 349-354): the params are anonymised for the log
LogRequest(request, sensitive_params) == AnonymiseSensitiveParams(request.params, sensitive_params)

\* _handle_notification (jsonrpc.py 228-248). After a binding failure the
\* error is sent and the code goes on to use bound_args, which is unbound:
\* UnboundLocalError, caught only on the deferred path.
HandleNotification(request, out) ==
    IF request.method \notin DOMAIN notifications THEN Unchanged
    ELSE LET method == notifications[request.method]
             logged == LogRequest(request, method.sensitive_params)
             bound == Binds(method, request.params)
             sent == IF bound THEN Unchanged
                     ELSE Writing(Unchanged,
                                  Written("error", request.id, ResultNone, Json(InvalidParams), "notification"))
         IN  IF logged.exc # NoExc THEN Raising(Unchanged, logged.exc)
             ELSE IF method.immediate
                 THEN IF ~bound THEN Raising(sent, UnboundLocalError)
                      ELSE IF out.kind = "raise" THEN Raising(sent, out.exc)
                      ELSE sent
                 ELSE IF ~bound THEN sent
                      ELSE CreatingTask(sent, HandlerTask("notification", request.id, TRUE))

\* _handle_request (jsonrpc.py 250-283)
HandleRequest(request, out) ==
    IF request.method \notin DOMAIN methods
        THEN Writing(Unchanged, Written("error", request.id, ResultNone, MethodNotFound, "request"))
    ELSE LET method == methods[request.method]
             logged == LogRequest(request, method.sensitive_params)
             bound == Binds(method, request.params)
             sent == IF bound THEN Unchanged
                     ELSE Writing(Unchanged,
                                  Written("error", request.id, ResultNone, Json(InvalidParams), "request"))
         IN  IF logged.exc # NoExc THEN Raising(Unchanged, logged.exc)
             ELSE IF method.immediate
                 THEN IF ~bound THEN Raising(sent, UnboundLocalError)
                      ELSE IF out.kind = "raise" THEN Raising(sent, out.exc)
                      ELSE Writing(sent, Written("result", request.id, out.value, NoError, "request"))
                 ELSE CreatingTask(sent, HandlerTask("request", request.id, bound))

\* _handle_input (jsonrpc.py 191-204): only a JsonRpcError of the parse is
\* caught and answered
HandleInput(line, out) ==
    LET parsed == ParseMessage(line)
    IN  IF parsed.exc # NoExc
            THEN IF IsJsonRpcError(parsed.exc)
                     THEN Writing(Unchanged, Written("error", NullId, ResultNone, Json(parsed.exc), "parse"))
                     ELSE Raising(Unchanged, parsed.exc)
        ELSE IF parsed.msg.type = "Request"
            THEN IF parsed.msg.id # NullId
                     THEN HandleRequest(parsed.msg, out)
                     ELSE HandleNotification(parsed.msg, out)
        ELSE HandleResponse(parsed.msg)

\* History: id denotes the outbound request number n (as send_request wrote
\* it, or as a JSON number); answered keeps, per outbound request, the
\* envelope of the first Response read for it
IdDenotes(id, n) == id = StrId(Str(n)) \/ id = NumId(n)
IsResponseLine(line) ==
    /\ line.kind = "object" /\ ParseMessage(line).exc = NoExc
    /\ ParseMessage(line).msg.type = "Response"
Answering(line) ==
    IF IsResponseLine(line)
        THEN [n \in DOMAIN answered |->
                 IF /\ n \in DOMAIN requests_futures
                    /\ "id" \in line.env.keys /\ IdDenotes(line.env.id, n)
                    /\ answered[n] = NoEnvelope
                    THEN line.env
                    ELSE answered[n]]
        ELSE answered

ConnectionInit ==
    /\ active = TRUE
    /\ run_pc = "top"
    /\ run_exc = NoExc
    /\ last_request_id = 0
    /\ requests_futures = <<>>
    /\ requests_sensitive = <<>>
    /\ caller = <<>>
    /\ conn_tasks = <<>>
    /\ task_counter = 0
    /\ written = <<>>
    /\ nread = 0
    /\ run_data = EmptyLine
    /\ at_close = 0
    /\ answered = [n \in 1..MaxRequests |-> NoEnvelope]

\* run(): the `while self._active` test, entered at the start and after
\* each `await asyncio.sleep(0)`
LoopTest_AlwaysReads == "read"
\* run(): `while self._active:`
LoopTest == IF active THEN "read" ELSE "returned"

RunLoop ==
    /\ run_pc = "top"
    /\ run_pc' = LoopTest
    /\ UNCHANGED <<active, run_exc, last_request_id, requests_futures, requests_sensitive, caller, conn_tasks,
                   task_counter, written, nread, run_data, answered, at_close, impVars, mgrVars, plugVars, libVars>>

\* run(): readline() returned a line; it is stripped and dispatched
ReadLine(line, out) ==
    /\ run_pc = "read"
    /\ nread < MaxReads
    /\ nread' = nread + 1
    /\ run_data' = line
    /\ LET eff == HandleInput(line, out)
       IN  /\ requests_futures' = eff.futures
           /\ written' = eff.written
           /\ conn_tasks' = eff.tasks
           /\ task_counter' = eff.counter
           /\ run_exc' = eff.exc
           /\ run_pc' = IF eff.exc = NoExc THEN "top" ELSE "raised"
    /\ answered' = Answering(line)
    /\ UNCHANGED <<active, last_request_id, requests_sensitive, caller, at_close, impVars, mgrVars, plugVars, libVars>>

\* run(): readline() returned an empty value (end of stream, or an empty
\* record): _eof(), and the loop test ends run()
ReadEmpty ==
    /\ run_pc = "read"
    /\ active' = FALSE
    /\ run_pc' = "returned"
    /\ run_data' = EmptyLine
    /\ UNCHANGED <<run_exc, last_request_id, requests_futures, requests_sensitive, caller, conn_tasks,
                   task_counter, written, nread, answered, at_close, impVars, mgrVars, plugVars, libVars>>

\* run(): readline() raised: the bare `except:` calls _eof()
ReadRaises ==
    /\ run_pc = "read"
    /\ active' = FALSE
    /\ run_pc' = "returned"
    /\ UNCHANGED <<run_exc, last_request_id, requests_futures, requests_sensitive, caller, conn_tasks,
                   task_counter, written, nread, run_data, answered, at_close, impVars, mgrVars, plugVars, libVars>>

\* A close() that would also cancel the handler tasks and drop them
CloseConnection_CancelsTasks ==
    /\ active' = FALSE
    /\ conn_tasks' = <<>>
    /\ UNCHANGED <<run_pc, run_exc, last_request_id, requests_futures, requests_sensitive, caller,
                   task_counter, written, nread, run_data, answered, impVars, mgrVars, plugVars, libVars>>

\* close(): `if self._active:` guards only the log line and the assignment,
\* so a call on a closed connection changes nothing
CloseConnection ==
    /\ active' = FALSE
    /\ UNCHANGED <<run_pc, run_exc, last_request_id, requests_futures, requests_sensitive, caller, conn_tasks,
                   task_counter, written, nread, run_data, answered, impVars, mgrVars, plugVars, libVars>>
Close == CloseConnection /\ UNCHANGED at_close

\* The handler tasks of deferred Requests in the task manager
RequestsInFlight == {t \in DOMAIN conn_tasks : conn_tasks[t].kind = "request"}
\* close() watched: the history keeps what the call that closes an active
\* connection finds in the task manager
CloseInFlight ==
    /\ CloseConnection
    /\ at_close' = (IF active THEN Cardinality(RequestsInFlight) ELSE at_close)

\* `self._requests_futures[id] = ...`: a dict assignment, which replaces an
\* entry already stored under the id
Registering(table, id, entry) ==
    [k \in DOMAIN table \cup {id} |-> IF k = id THEN entry ELSE table[k]]

NextRequestId_Same == IF last_request_id = 0 THEN 1 ELSE last_request_id
\* send_request: `self._last_request_id += 1`
NextRequestId == last_request_id + 1

\* send_request(method, params, sensitive_params) up to `await future`;
\* params is a mapping
SendRequest(sensitive_params) ==
    /\ last_request_id < MaxRequests
    /\ last_request_id' = NextRequestId
    /\ requests_futures' = Registering(requests_futures, NextRequestId, PendingFuture)
    /\ requests_sensitive' = Registering(requests_sensitive, NextRequestId, sensitive_params)
    /\ caller' = Append(caller, Future("awaiting", ResultNone, NoError))
    /\ written' = Send(written,
          Written("request", StrId(Str(NextRequestId)), ResultNone, NoError, "none"))
    /\ UNCHANGED <<active, run_pc, run_exc, conn_tasks, task_counter, nread, run_data, answered, at_close, impVars, mgrVars, plugVars, libVars>>

\* send_request: `return await future` resumes with the future's outcome
CallerResumes(n) ==
    /\ n \in DOMAIN requests_futures
    /\ requests_futures[n].state # "pending"
    /\ caller[n].state = "awaiting"
    /\ caller' = [caller EXCEPT ![n] = requests_futures[n]]
    /\ UNCHANGED <<active, run_pc, run_exc, last_request_id, requests_futures,
                   requests_sensitive, conn_tasks,
                   task_counter, written, nread, run_data, answered, at_close, impVars, mgrVars, plugVars, libVars>>

\* An event loop that would resume handler tasks in the order of their creation only
InFlight_OldestOnly(t) == t \in DOMAIN conn_tasks /\ \A k \in DOMAIN conn_tasks : t <= k
\* The handler task t is in the task manager: each such task awaits its own
\* callback (jsonrpc.py 241, 271), so any of them may be the next to end
InFlight(t) == t \in DOMAIN conn_tasks

\* A handler task runs to its end: handle() of a deferred request writes
\* the Response (jsonrpc.py 269-281; bound_args, unbound after a binding
\* failure, is a free variable of handle(): NameError); task_wrapper absorbs and logs what a
\* notification handler raises and deregisters the task (task_manager.py 15-31)
HandlerTaskEnds(t, out) ==
    /\ InFlight(t)
    /\ conn_tasks' = [k \in DOMAIN conn_tasks \ {t} |-> conn_tasks[k]]
    /\ IF conn_tasks[t].kind = "request"
         THEN written' = Send(written, WrittenFor(out,
                 IF ~conn_tasks[t].bound
                     THEN Written("error", conn_tasks[t].id, ResultNone,
                                  UnknownError(NameError.str), "request")
                 ELSE IF out.kind = "return"
                     THEN Written("result", conn_tasks[t].id, out.value, NoError, "request")
                 ELSE Written("error", conn_tasks[t].id, ResultNone, ErrorResponseOf(out.exc), "request")))
         ELSE UNCHANGED written
    /\ UNCHANGED <<active, run_pc, run_exc, last_request_id, requests_futures, requests_sensitive, caller,
                   task_counter, nread, run_data, answered, at_close, impVars, mgrVars, plugVars, libVars>>

\* An immediate callback runs during the dispatch of the line only when the
\* line is a Request or Notification for an immediate method
CallbackOutcomesOf(line) ==
    LET parsed == ParseMessage(line)
        registry == IF parsed.msg.id # NullId THEN methods ELSE notifications
    IN  IF /\ parsed.exc = NoExc /\ parsed.msg.type = "Request"
           /\ parsed.msg.method \in DOMAIN registry
           /\ registry[parsed.msg.method].immediate
            THEN CallbackOutcomes
            ELSE {Return}

\* Outbound requests and the Responses to them
CorrelationNext ==
    \/ RunLoop
    \/ \E line \in ResponseLines : ReadLine(line, Return)
    \/ ReadEmpty
    \/ ReadRaises
    \/ Close
    \/ \E sensitive_params \in DescriptorsSent : SendRequest(sensitive_params)
    \/ \E n \in 1..MaxRequests : CallerResumes(n)

\* Inbound Requests and Notifications, and lines that are no envelope
DispatchNext ==
    \/ RunLoop
    \/ \E line \in DispatchLines : \E out \in CallbackOutcomesOf(line) : ReadLine(line, out)
    \/ ReadEmpty
    \/ ReadRaises
    \/ Close
    \/ \E t \in 0..MaxReads, out \in HandlerOutcomes : HandlerTaskEnds(t, out)

\* Inbound Requests and Notifications of deferred methods with their handler
\* tasks, and outbound requests the peer leaves unanswered
CloseNext ==
    \/ RunLoop
    \/ \E line \in DeferredLines : ReadLine(line, Return)
    \/ ReadEmpty
    \/ ReadRaises
    \/ CloseInFlight
    \/ \E t \in 0..MaxReads, out \in HandlerOutcomes : HandlerTaskEnds(t, out)
    \/ SendRequest(SensitiveFalse)

\* Handlers that return any value, also one that cannot be serialised
ValuedOutcomes == HandlerOutcomes \cup {Returning(Unencodable)}
ValuedOutcomesOf(line) ==
    IF CallbackOutcomesOf(line) = {Return} THEN {Return}
    ELSE CallbackOutcomes \cup {Returning(Unencodable)}
\* Inbound Requests and their handlers
RequestsNext ==
    \/ RunLoop
    \/ \E line \in RequestLines : \E out \in ValuedOutcomesOf(line) : ReadLine(line, out)
    \/ ReadEmpty
    \/ ReadRaises
    \/ Close
    \/ \E t \in 0..MaxReads, out \in ValuedOutcomes : HandlerTaskEnds(t, out)

ConnNext == CorrelationNext \/ DispatchNext \/ CloseNext \/ RequestsNext

(***************************************************************************)
(* TaskManager (task_manager.py 6-49)                                      *)
(***************************************************************************)
\* An asyncio task running task_wrapper: created (scheduled, first step not
\* run), suspended (in `await coro`), or done. must_cancel: cancel() was
\* requested and not yet delivered. result: what an awaiter of the task gets.
\* in_wait (history): it was created while wait() was in progress.
ManagedTask(state, must_cancel, handle_exceptions, result, in_wait) ==
    [state |-> state, must_cancel |-> must_cancel, handle_exceptions |-> handle_exceptions,
     result |-> result, in_wait |-> in_wait]

TaskManagerInit ==
    /\ mgr_tasks = {}
    /\ mgr_task_counter = 0
    /\ mgr_task = <<>>
    /\ wait_pc = "idle"
    /\ wait_gather = {}
    /\ cancel_called = FALSE
    /\ wait_after_cancel = FALSE

\* create_task (12-37): the next id is taken, the task is scheduled and
\* registered
Creating(handle_exceptions) ==
    /\ mgr_task_counter < MaxTasks
    /\ mgr_task_counter' = mgr_task_counter + 1
    /\ mgr_tasks' = mgr_tasks \cup {mgr_task_counter}
    /\ mgr_task' = [k \in DOMAIN mgr_task \cup {mgr_task_counter} |->
                       IF k = mgr_task_counter
                           THEN ManagedTask("created", FALSE, handle_exceptions, "none",
                                            wait_pc \in {"check", "gather"})
                           ELSE mgr_task[k]]

\* A caller outside the manager's tasks calls create_task
CreateTask(handle_exceptions) ==
    /\ Creating(handle_exceptions)
    /\ UNCHANGED <<wait_pc, wait_gather, cancel_called, wait_after_cancel, impVars, connVars, plugVars, libVars>>

\* The first step of a task: task_wrapper enters its try and awaits coro
TaskStarts(t) ==
    /\ t \in DOMAIN mgr_task
    /\ mgr_task[t].state = "created" /\ ~mgr_task[t].must_cancel
    /\ mgr_task' = [mgr_task EXCEPT ![t].state = "suspended"]
    /\ UNCHANGED <<mgr_tasks, mgr_task_counter, wait_pc, wait_gather, cancel_called,
                   wait_after_cancel, impVars, connVars, plugVars, libVars>>

\* The first step of a task cancelled before it: CancelledError is thrown
\* into the coroutine that has not started, so the body of task_wrapper, its
\* try and its finally, never run
TaskNeverRuns(t) ==
    /\ t \in DOMAIN mgr_task
    /\ mgr_task[t].state = "created" /\ mgr_task[t].must_cancel
    /\ mgr_task' = [mgr_task EXCEPT ![t].state = "done", ![t].must_cancel = FALSE,
                                    ![t].result = "cancelled"]
    /\ UNCHANGED <<mgr_tasks, mgr_task_counter, wait_pc, wait_gather, cancel_called,
                   wait_after_cancel, impVars, connVars, plugVars, libVars>>

\* A running coroutine creates a task in the same manager
TaskSpawns(t, handle_exceptions) ==
    /\ t \in DOMAIN mgr_task
    /\ mgr_task[t].state = "suspended" /\ ~mgr_task[t].must_cancel
    /\ Creating(handle_exceptions)
    /\ UNCHANGED <<wait_pc, wait_gather, cancel_called, wait_after_cancel, impVars, connVars, plugVars, libVars>>

\* task_wrapper: `finally: del self._tasks[task_id]`
Deregistering(t) == mgr_tasks \ {t}

\* task_wrapper (15-31): coro returned or raised; an exception is logged and
\* absorbed when handle_exceptions, re-raised otherwise
TaskEnds(t, out) ==
    /\ t \in DOMAIN mgr_task
    /\ mgr_task[t].state = "suspended" /\ ~mgr_task[t].must_cancel
    /\ mgr_task' = [mgr_task EXCEPT
          ![t].state = "done",
          ![t].result = IF out = "return" THEN "returned"
                        ELSE IF mgr_task[t].handle_exceptions THEN "absorbed" ELSE "raised"]
    /\ mgr_tasks' = Deregistering(t)
    /\ UNCHANGED <<mgr_task_counter, wait_pc, wait_gather, cancel_called, wait_after_cancel,
                   impVars, connVars, plugVars, libVars>>

\* task_wrapper (15-31): CancelledError is raised at `await coro` (the
\* coroutine does not suppress it); absorbed when handle_exceptions
TaskCancelled(t) ==
    /\ t \in DOMAIN mgr_task
    /\ mgr_task[t].state = "suspended" /\ mgr_task[t].must_cancel
    /\ mgr_task' = [mgr_task EXCEPT
          ![t].state = "done", ![t].must_cancel = FALSE,
          ![t].result = IF mgr_task[t].handle_exceptions THEN "absorbed" ELSE "cancelled"]
    /\ mgr_tasks' = Deregistering(t)
    /\ UNCHANGED <<mgr_task_counter, wait_pc, wait_gather, cancel_called, wait_after_cancel,
                   impVars, connVars, plugVars, libVars>>

\* cancel() (39-41): task.cancel() on every registered task; it does nothing
\* to a task that is done
Cancelling ==
    [k \in DOMAIN mgr_task |->
        IF k \in mgr_tasks /\ mgr_task[k].state # "done"
            THEN [mgr_task[k] EXCEPT !.must_cancel = TRUE]
            ELSE mgr_task[k]]

Cancel ==
    /\ mgr_task' = Cancelling
    /\ cancel_called' = TRUE
    /\ UNCHANGED <<mgr_tasks, mgr_task_counter, wait_pc, wait_gather, wait_after_cancel,
                   impVars, connVars, plugVars, libVars>>

\* wait() is called
WaitCalled ==
    /\ wait_pc = "idle"
    /\ wait_pc' = "check"
    /\ wait_after_cancel' = cancel_called
    /\ UNCHANGED <<mgr_tasks, mgr_task_counter, mgr_task, wait_gather, cancel_called,
                   impVars, connVars, plugVars, libVars>>

\* wait() (43-49), the loop head: return when nothing is registered, else
\* hand the registered tasks to gather
WaitChecks ==
    /\ wait_pc = "check"
    /\ IF mgr_tasks = {}
         THEN wait_pc' = "returned" /\ UNCHANGED wait_gather
         ELSE wait_pc' = "gather" /\ wait_gather' = mgr_tasks
    /\ UNCHANGED <<mgr_tasks, mgr_task_counter, mgr_task, cancel_called, wait_after_cancel,
                   impVars, connVars, plugVars, libVars>>

AfterGather_Return == "returned"
\* wait(): `while True` leads back to the loop head after gather
AfterGather == "check"

\* wait(): gather(*tasks, return_exceptions=True) is done once each of the
\* tasks handed to it is done
WaitGathered ==
    /\ wait_pc = "gather"
    /\ \A t \in wait_gather : mgr_task[t].state = "done"
    /\ wait_pc' = AfterGather
    /\ wait_gather' = {}
    /\ UNCHANGED <<mgr_tasks, mgr_task_counter, mgr_task, cancel_called, wait_after_cancel,
                   impVars, connVars, plugVars, libVars>>

TaskSteps(t) ==
    \/ TaskStarts(t)
    \/ TaskNeverRuns(t)
    \/ TaskCancelled(t)
    \/ \E out \in {"return", "raise"} : TaskEnds(t, out)

MgrNext ==
    \/ \E handle_exceptions \in BOOLEAN : CreateTask(handle_exceptions)
    \/ \E t \in 0..MaxTasks, handle_exceptions \in BOOLEAN : TaskSpawns(t, handle_exceptions)
    \/ \E t \in 0..MaxTasks : TaskSteps(t)
    \/ Cancel
    \/ WaitCalled
    \/ WaitChecks
    \/ WaitGathered

(***************************************************************************)
(* Plugin: close() and the shutdown request (plugin.py 273-313)            *)
(* mgr_tasks, mgr_task and wait_pc are here the external task manager and  *)
(* the handler's `await self._external_task_manager.wait()`                *)
(***************************************************************************)
InternalTasks(tick, shutdown) == [tick |-> tick, shutdown |-> shutdown]

PluginInit ==
    /\ plugin_active = TRUE
    /\ internal_tasks = InternalTasks("none", "none")
    /\ shutdown_pc = "idle"
    /\ handshake = "none"
    /\ tick_log = <<>>
    /\ wait_closed_pc = "idle"
    /\ closed_again = 0
    /\ wrapper = <<>>

\* What the hooks handshake_complete() and tick() do: return, or raise an
\* exception
HookOutcomes == {Return, Raise(RuntimeError)}

\* The id of the shutdown Request
ShutdownId == StrId(Str(4))

\* A close() without the test of _active
ClosePlugin_Unguarded ==
    /\ active' = FALSE
    /\ mgr_task' = Cancelling
    /\ cancel_called' = TRUE
    /\ internal_tasks' = [internal_tasks EXCEPT !.shutdown = "created"]
    /\ plugin_active' = FALSE

\* Plugin.close() (273-288): nothing when already closed; else the
\* connection is closed, the external tasks are cancelled and the task
\* running the teardown hook shutdown() is created in the internal manager
ClosePlugin ==
    IF plugin_active
        THEN /\ active' = FALSE
             /\ mgr_task' = Cancelling
             /\ cancel_called' = TRUE
             /\ internal_tasks' = [internal_tasks EXCEPT !.shutdown = "created"]
             /\ plugin_active' = FALSE
        ELSE UNCHANGED <<active, mgr_task, cancel_called, internal_tasks, plugin_active>>

\* run() reads the initialize_cache Request: _initialize_cache (322-328)
\* calls handshake_complete(), logs what it raises, and creates the tick
\* task in the internal manager
InitializeCache(out) ==
    /\ run_pc = "read"
    /\ internal_tasks.tick = "none"
    /\ handshake' = (IF out.kind = "raise" THEN "raised" ELSE "returned")
    /\ internal_tasks' = [internal_tasks EXCEPT !.tick = "created"]
    /\ run_pc' = "top"
    /\ nread' = nread + 1
    /\ UNCHANGED <<active, run_exc, last_request_id, requests_futures, requests_sensitive, caller,
                   conn_tasks, task_counter, written, run_data, answered, at_close,
                   plugin_active, shutdown_pc, impVars, mgrVars, rdVars, tick_log, featVars, codecVars, exitVars>>

\* run() reads the shutdown Request: a deferred method, so the task running
\* handle() is created (jsonrpc.py 283)
ShutdownRequested ==
    /\ run_pc = "read"
    /\ shutdown_pc = "idle"
    /\ shutdown_pc' = "created"
    /\ run_pc' = "top"
    /\ nread' = nread + 1
    /\ UNCHANGED <<active, run_exc, last_request_id, requests_futures, requests_sensitive, caller,
                   conn_tasks, task_counter, written, run_data, answered, at_close,
                   plugin_active, internal_tasks, impVars, mgrVars, libVars>>

\* _shutdown (309-313), the handler's first step: close(), then
\* `await self._external_task_manager.wait()` is entered
ShutdownCloses ==
    /\ shutdown_pc = "created"
    /\ ClosePlugin
    /\ wait_pc' = "check"
    /\ wait_after_cancel' = TRUE
    /\ shutdown_pc' = "wait_external"
    /\ UNCHANGED <<run_pc, run_exc, last_request_id, requests_futures, requests_sensitive, caller,
                   conn_tasks, task_counter, written, nread, run_data, answered, at_close,
                   mgr_tasks, mgr_task_counter, wait_gather, impVars, libVars>>

\* _shutdown: the wait on the external manager returned;
\* `await self._internal_task_manager.wait()` is entered
ShutdownExternalDrained ==
    /\ shutdown_pc = "wait_external"
    /\ wait_pc = "returned"
    /\ shutdown_pc' = "wait_internal"
    /\ UNCHANGED <<plugin_active, internal_tasks, impVars, connVars, mgrVars, libVars>>

\* _shutdown: the wait on the internal manager returns once no internal task
\* is registered (its tasks are never cancelled, so each one deregisters
\* itself when it ends); handle() then writes the Response with the value
\* _shutdown returned, None (jsonrpc.py 269-272)
ShutdownAnswers ==
    /\ shutdown_pc = "wait_internal"
    /\ internal_tasks.tick \in {"none", "done"}
    /\ internal_tasks.shutdown \in {"none", "done"}
    /\ written' = Append(written, Written("result", ShutdownId, Return.value, NoError, "request"))
    /\ shutdown_pc' = "answered"
    /\ UNCHANGED <<active, run_pc, run_exc, last_request_id, requests_futures, requests_sensitive,
                   caller, conn_tasks, task_counter, nread, run_data, answered, at_close,
                   plugin_active, internal_tasks, impVars, mgrVars, libVars>>

\* `async with plugin` (plugin.py 1129-1130): when run() is over, __aexit__
\* calls close()
PluginExit ==
    /\ run_pc \in {"returned", "raised"}
    /\ plugin_active
    /\ ClosePlugin
    /\ UNCHANGED <<run_pc, run_exc, last_request_id, requests_futures, requests_sensitive, caller,
                   conn_tasks, task_counter, written, nread, run_data, answered, at_close,
                   mgr_tasks, mgr_task_counter, wait_pc, wait_gather, wait_after_cancel,
                   shutdown_pc, impVars, libVars>>

\* The first step of an internal task
InternalTaskStarts(name) ==
    /\ internal_tasks[name] = "created"
    /\ internal_tasks' = [internal_tasks EXCEPT ![name] = "running"]
    /\ UNCHANGED <<plugin_active, shutdown_pc, impVars, connVars, mgrVars, libVars>>

\* An internal task ends and deregisters itself: _pass_control (301-307)
\* when its loop test finds the plugin closed, the shutdown task (281-285)
\* when the hook returned, raised or timed out
InternalTaskEnds(name) ==
    /\ internal_tasks[name] = "running"
    /\ name = "tick" => ~plugin_active
    /\ internal_tasks' = [internal_tasks EXCEPT ![name] = "done"]
    /\ UNCHANGED <<plugin_active, shutdown_pc, impVars, connVars, mgrVars, libVars>>

\* run() resumes from `await asyncio.sleep(0)`. The event loop runs ready
\* tasks in the order they were scheduled, so the handler task created by
\* the dispatch has taken its first step by then
RunResumes ==
    /\ shutdown_pc # "created"
    /\ internal_tasks.tick # "created"
    /\ RunLoop

\* Plugin.close() called by the plugin's own code
DirectClose ==
    /\ plugin_active
    /\ ClosePlugin
    /\ UNCHANGED <<run_pc, run_exc, last_request_id, requests_futures, requests_sensitive, caller,
                   conn_tasks, task_counter, written, nread, run_data, answered, at_close,
                   mgr_tasks, mgr_task_counter, wait_pc, wait_gather, wait_after_cancel,
                   shutdown_pc, impVars, libVars>>

\* close() is called on a plugin that is closed already: by __aexit__
\* (207-209) after a shutdown request or a direct close(), or by the plugin's
\* own code once more
CloseAgain ==
    /\ ~plugin_active
    /\ closed_again < MaxCloses
    /\ ClosePlugin
    /\ closed_again' = closed_again + 1
    /\ UNCHANGED <<run_pc, run_exc, last_request_id, requests_futures, requests_sensitive, caller,
                   conn_tasks, task_counter, written, nread, run_data, answered, at_close,
                   mgr_tasks, mgr_task_counter, wait_pc, wait_gather, wait_after_cancel,
                   shutdown_pc, wait_closed_pc, wrapper, impVars, rdVars, tickVars, featVars, codecVars>>

\* A tick() call: the plugin's state when it was made and what it did
Tick(out) == [active |-> plugin_active, cache |-> handshake # "none", raised |-> out.kind = "raise"]

\* Mutant: an exception out of tick() ends the tick task
AfterTick_RaiseEnds(out) == IF out.kind = "raise" THEN "done" ELSE "running"

\* _pass_control after tick() returned or raised (303-307): the exception is
\* logged, and the task sleeps for a second
AfterTick(out) == "running"

\* Mutant: a loop that ticks whatever the state of the plugin
LoopTicks_Always == TRUE

\* _pass_control's loop test (302)
LoopTicks == plugin_active

\* _pass_control (301-307), a step of the tick task: its first one, or the
\* one that follows the sleep. The loop test, then tick() and into the
\* sleep, or the end of the task, which deregisters it
PassControl(out) ==
    /\ internal_tasks.tick \in {"created", "running"}
    /\ IF LoopTicks
         THEN /\ Len(tick_log) < MaxTicks
              /\ tick_log' = Append(tick_log, Tick(out))
              /\ internal_tasks' = [internal_tasks EXCEPT !.tick = AfterTick(out)]
         ELSE /\ internal_tasks' = [internal_tasks EXCEPT !.tick = "done"]
              /\ UNCHANGED tick_log
    /\ UNCHANGED <<plugin_active, shutdown_pc, handshake, impVars, connVars, mgrVars, rdVars, featVars, codecVars, exitVars>>

InternalTaskSteps ==
    \E name \in {"tick", "shutdown"} : InternalTaskStarts(name) \/ InternalTaskEnds(name)

ShutdownSteps ==
    \/ ShutdownCloses
    \/ ShutdownExternalDrained
    \/ ShutdownAnswers

ShutdownNext ==
    \/ RunResumes
    \/ ReadEmpty
    \/ ReadRaises
    \/ InitializeCache(Return)
    \/ ShutdownRequested
    \/ ShutdownSteps
    \/ PluginExit
    \/ InternalTaskSteps
    \/ \E handle_exceptions \in BOOLEAN : CreateTask(handle_exceptions)
    \/ \E t \in 0..MaxTasks, handle_exceptions \in BOOLEAN : TaskSpawns(t, handle_exceptions)
    \/ \E t \in 0..MaxTasks : TaskSteps(t)
    \/ WaitChecks
    \/ WaitGathered

\* The Plugin with its read loop, the handshake, the tick loop and what
\* closes it: the shutdown request, the end of `async with`, its own code
TickNext ==
    \/ RunResumes
    \/ ReadEmpty
    \/ \E out \in HookOutcomes : InitializeCache(out)
    \/ ShutdownRequested
    \/ ShutdownSteps
    \/ WaitChecks
    \/ PluginExit
    \/ DirectClose
    \/ \E out \in HookOutcomes : PassControl(out)
    \/ InternalTaskStarts("shutdown")
    \/ InternalTaskEnds("shutdown")

\* The plugin with its read loop, external tasks and every way of closing
\* it, any number of times
ClosingNext ==
    \/ RunResumes
    \/ ReadEmpty
    \/ ShutdownRequested
    \/ ShutdownSteps
    \/ PluginExit
    \/ DirectClose
    \/ CloseAgain
    \/ InternalTaskStarts("shutdown")
    \/ InternalTaskEnds("shutdown")
    \/ CreateTask(FALSE)
    \/ \E t \in 0..MaxTasks : TaskSteps(t)
    \/ WaitChecks
    \/ WaitGathered

(***************************************************************************)
(* Plugin: external methods, close() and wait_closed() (plugin.py 256-298) *)
(* conn_tasks are the Connection's tasks running handle() or a             *)
(* notification callback; mgr_tasks is the external task manager and       *)
(* wait_pc the `await self._external_task_manager.wait()` of wait_closed() *)
(***************************************************************************)
Wrapper(awaited, spawned) == [task |-> awaited, spawned |-> spawned]

\* The handler tasks that have not taken their first step
NotStarted == DOMAIN conn_tasks \ DOMAIN wrapper

\* The first step of the task of an external method: the wrapper (262-266)
\* creates the task running the handler in the external manager, with
\* handle_exceptions False, and awaits it
WrapperStarts(h) ==
    /\ h \in NotStarted
    /\ Creating(FALSE)
    /\ wrapper' = [k \in DOMAIN wrapper \cup {h} |->
                      IF k = h THEN Wrapper(mgr_task_counter, FALSE) ELSE wrapper[k]]
    /\ UNCHANGED <<wait_pc, wait_gather, cancel_called, wait_after_cancel, wait_closed_pc,
                   closed_again, impVars, connVars, plugVars, rdVars, tickVars, featVars, codecVars>>

\* The handler of start_<feature>_import runs: Importer.start (importer.py
\* 55-69) creates the task running the import in the external manager, the
\* one Plugin gives its importers (plugin.py 57-66), with handle_exceptions
\* False, and does not await it
ImportStarts(h) ==
    /\ h \in DOMAIN conn_tasks /\ h \in DOMAIN wrapper
    /\ conn_tasks[h].kind = "request"
    /\ ~wrapper[h].spawned
    /\ mgr_task[wrapper[h].task].state = "suspended" /\ ~mgr_task[wrapper[h].task].must_cancel
    /\ Creating(FALSE)
    /\ wrapper' = [wrapper EXCEPT ![h].spawned = TRUE]
    /\ UNCHANGED <<wait_pc, wait_gather, cancel_called, wait_after_cancel, wait_closed_pc,
                   closed_again, impVars, connVars, plugVars, rdVars, tickVars, featVars, codecVars>>

\* What `await task` gives the wrapper: the handler's value, or what
\* task_wrapper re-raised (handle_exceptions is False)
Awaited(result) ==
    IF result = "returned" THEN Return
    ELSE IF result = "cancelled" THEN Raise(CancelledError)
    ELSE Raise(RuntimeError)

\* The external task is done: the wrapper's await ends, and with it the task
\* of the Connection, which writes the Response of a Request
WrapperEnds(h) ==
    /\ h \in DOMAIN conn_tasks /\ h \in DOMAIN wrapper
    /\ mgr_task[wrapper[h].task].state = "done"
    /\ HandlerTaskEnds(h, Awaited(mgr_task[wrapper[h].task].result))

\* wait_closed() (290-295) is called on the closed plugin:
\* `await self._external_task_manager.wait()` is entered
WaitClosedCalled ==
    /\ ~plugin_active
    /\ wait_closed_pc = "idle"
    /\ wait_closed_pc' = "external"
    /\ wait_pc' = "check"
    /\ wait_after_cancel' = cancel_called
    /\ UNCHANGED <<mgr_tasks, mgr_task_counter, mgr_task, wait_gather, cancel_called, closed_again,
                   wrapper, impVars, connVars, plugVars, rdVars, tickVars, featVars, codecVars>>

\* What wait_closed() awaits next
AfterWait(pc) ==
    IF pc = "external" THEN "internal" ELSE IF pc = "internal" THEN "connection" ELSE "returned"

WaitClosedGoesOn ==
    /\ wait_closed_pc' = AfterWait(wait_closed_pc)
    /\ UNCHANGED <<closed_again, wrapper, impVars, connVars, mgrVars, plugVars, rdVars, tickVars,
                   featVars, codecVars>>

\* wait_closed(): the wait on the external manager returned;
\* `await self._internal_task_manager.wait()` is entered
ExternalDrained ==
    /\ wait_closed_pc = "external"
    /\ wait_pc = "returned"
    /\ WaitClosedGoesOn

\* wait_closed(): the wait on the internal manager returns once none of its
\* tasks is registered; `await self._connection.wait_closed()` is entered
InternalDrained ==
    /\ wait_closed_pc = "internal"
    /\ internal_tasks.tick \in {"none", "done"}
    /\ internal_tasks.shutdown \in {"none", "done"}
    /\ WaitClosedGoesOn

\* Connection.wait_closed() (jsonrpc.py 184-185): the wait on the
\* Connection's manager returns once none of its tasks is registered, and
\* wait_closed() returns
ConnectionDrained ==
    /\ wait_closed_pc = "connection"
    /\ conn_tasks = <<>>
    /\ WaitClosedGoesOn

\* run() resumes from `await asyncio.sleep(0)`: the handler task created by
\* the dispatch has taken its first step by then
RunAfterHandler ==
    /\ NotStarted = {}
    /\ RunLoop

\* The Plugin with its read loop, the tasks of its external methods, what
\* closes it (its own code, the end of `async with`) and wait_closed()
WaitClosedNext ==
    \/ RunAfterHandler
    \/ \E line \in ExternalLines : ReadLine(line, Return)
    \/ ReadEmpty
    \/ \E h \in 0..MaxReads : WrapperStarts(h) \/ ImportStarts(h) \/ WrapperEnds(h)
    \/ \E t \in 0..MaxTasks : TaskSteps(t)
    \/ DirectClose
    \/ PluginExit
    \/ InternalTaskStarts("shutdown")
    \/ InternalTaskEnds("shutdown")
    \/ WaitClosedCalled
    \/ WaitChecks
    \/ WaitGathered
    \/ ExternalDrained
    \/ InternalDrained
    \/ ConnectionDrained

(***************************************************************************)
(* Plugin: feature detection (plugin.py 157-229, 315-320)                  *)
(***************************************************************************)
\* The _detect_feature calls of __init__, in order (157-202)
Detections ==
    << <<"ImportOwnedGames", {"get_owned_games"}>>,
       <<"ImportAchievements", {"get_unlocked_achievements"}>>,
       <<"ImportInstalledGames", {"get_local_games"}>>,
       <<"LaunchGame", {"launch_game"}>>,
       <<"InstallGame", {"install_game"}>>,
       <<"UninstallGame", {"uninstall_game"}>>,
       <<"ShutdownPlatformClient", {"shutdown_platform_client"}>>,
       <<"LaunchPlatformClient", {"launch_platform_client"}>>,
       <<"ImportFriends", {"get_friends"}>>,
       <<"ImportGameTime", {"get_game_time"}>>,
       <<"ImportGameLibrarySettings", {"get_game_library_settings"}>>,
       <<"ImportOSCompatibility", {"get_os_compatibility"}>>,
       <<"ImportUserPresence", {"get_user_presence"}>>,
       <<"ImportLocalSize", {"get_local_size"}>>,
       <<"ImportSubscriptions", {"get_subscriptions"}>>,
       <<"ImportSubscriptionGames", {"get_subscription_games"}>> >>
\* The business methods, and two methods of Plugin that no feature names
BusinessMethods == UNION {Detections[k][2] : k \in DOMAIN Detections}
MethodNames == BusinessMethods \cup {"authenticate", "tick"}

\* Mutant: a method counts when any class of the plugin's hierarchy below
\* Plugin overrides it
Implements_Inherited(own, inherited, method_names) == method_names \subseteq (own \cup inherited)

\* _implements (221-225): every method is a key of self.__class__.__dict__,
\* the concrete class's own namespace
Implements(own, inherited, method_names) == method_names \subseteq own

\* _detect_feature (227-229) for the first k calls of __init__
RECURSIVE DetectFeatures(_, _, _)
DetectFeatures(own, inherited, k) ==
    IF k = 0 THEN {}
    ELSE DetectFeatures(own, inherited, k - 1) \cup
             (IF Implements(own, inherited, Detections[k][2]) THEN {Detections[k][1]} ELSE {})

\* The orders in which a set can iterate: its elements, each once
Orders(set) ==
    {order \in [1..Cardinality(set) -> set] : \A e \in set : \E k \in DOMAIN order : order[k] = e}

AtMost(n, set) == {sub \in SUBSET set : Cardinality(sub) <= n}

\* Plugin.__init__ of a concrete class that defines up to MaxOverrides
\* names, below a class that may override one more
FeaturesInit ==
    /\ class_dict \in AtMost(MaxOverrides, MethodNames)
    /\ base_dict \in AtMost(1, MethodNames \ class_dict)
    /\ dict_at_init = class_dict
    /\ features = DetectFeatures(class_dict, base_dict, Len(Detections))
    /\ set_order \in Orders(features)
    /\ capabilities = {}
\* A concrete class that defines nothing
NoOverrides == class_dict = {} /\ base_dict = {} /\ FeaturesInit

\* Mutant: the features are detected again for each request
FeatureList_Detected ==
    LET now == DetectFeatures(class_dict, base_dict, Len(Detections))
    IN  CHOOSE order \in Orders(now) : TRUE

\* The `features` property (211-213): list(self._features)
FeatureList == set_order

\* _get_capabilities (315-320), the immediate handler of get_capabilities
GetCapabilities ==
    /\ capabilities' = capabilities \cup {[platform_name |-> "generic", features |-> FeatureList,
                                           token |-> "token"]}
    /\ UNCHANGED <<class_dict, base_dict, dict_at_init, features, set_order,
                   impVars, connVars, mgrVars, plugVars, rdVars, tickVars, codecVars, exitVars>>

\* After the construction a name is added to the concrete class
ClassPatched(name) ==
    /\ name \in MethodNames \ class_dict
    /\ Cardinality(class_dict) < MaxOverrides
    /\ class_dict' = class_dict \cup {name}
    /\ UNCHANGED <<base_dict, dict_at_init, features, set_order, capabilities,
                   impVars, connVars, mgrVars, plugVars, rdVars, tickVars, codecVars, exitVars>>

FeaturesNext ==
    \/ GetCapabilities
    \/ \E name \in MethodNames : ClassPatched(name)

(***************************************************************************)
(* StreamLineReader (reader.py 4-28)                                       *)
(***************************************************************************)
LF == "\n"
Bytes == {"a", LF}
RECURSIVE ByteStrings(_)
ByteStrings(n) ==
    IF n = 0 THEN {<<>>}
    ELSE LET shorter == ByteStrings(n - 1)
         IN  shorter \cup {Append(b, c) : b \in {x \in shorter : Len(x) = n - 1}, c \in Bytes}

\* A value readline() returned; eof tells the `return bytes() # EOF` (17)
\* from the `return line` (28)
ReturnedLine(line) == [line |-> line, eof |-> FALSE]
ReturnedEof == [line |-> <<>>, eof |-> TRUE]

\* __init__ (6-9), over a stream the peer has filled with any bytes
ReaderInit ==
    /\ stream \in ByteStrings(MaxBytes)
    /\ unread = stream
    /\ reads = <<>>
    /\ buffer = <<>>
    /\ processed_buffer_it = 0
    /\ readline_pc = "idle"
    /\ returned = <<>>

\* bytes.find(b"\n", start): the lowest index (from 0) at or after start
\* that holds a newline, -1 when there is none
Find(bytes, start) ==
    LET found == {k \in (start + 1)..Len(bytes) : bytes[k] = LF}
    IN  IF found = {} THEN 0 - 1 ELSE (CHOOSE k \in found : \A j \in found : k <= j) - 1

\* Mutant: the search starts over from the beginning of the buffer's
\* unprocessed part and the line drops what was scanned before
LineAt_Unscanned(it) == SubSeq(buffer, processed_buffer_it + 1, it)

\* self._buffer[:it]
LineAt(it) == SubSeq(buffer, 1, it)

\* readline() is called (by Connection.run, jsonrpc.py 166-167; one call at
\* a time)
Readline ==
    /\ readline_pc = "idle"
    /\ Cardinality({k \in DOMAIN returned : returned[k].eof}) < MaxEofs
    /\ readline_pc' = "loop"
    /\ UNCHANGED <<stream, unread, reads, buffer, processed_buffer_it, returned,
                   impVars, connVars, mgrVars, plugVars, tickVars, featVars, codecVars, exitVars>>

\* The condition of line 14 holds: `await self._reader.read(1024*1024)`
LoopReads ==
    /\ readline_pc = "loop"
    /\ buffer = <<>> \/ processed_buffer_it # 0
    /\ readline_pc' = "read"
    /\ UNCHANGED <<stream, unread, reads, buffer, processed_buffer_it, returned,
                   impVars, connVars, mgrVars, plugVars, tickVars, featVars, codecVars, exitVars>>

\* read() returns the next n bytes of the stream, n >= 1 while some are
\* left, and no byte at the end of the stream (15-18)
ReadReturns(n) ==
    /\ readline_pc = "read"
    /\ n <= Len(unread)
    /\ n = 0 <=> unread = <<>>
    /\ LET chunk == SubSeq(unread, 1, n)
       IN  /\ unread' = SubSeq(unread, n + 1, Len(unread))
           /\ reads' = Append(reads, chunk)
           /\ IF chunk = <<>>
                THEN /\ returned' = Append(returned, ReturnedEof)
                     /\ readline_pc' = "idle"
                     /\ UNCHANGED buffer
                ELSE /\ buffer' = buffer \o chunk
                     /\ readline_pc' = "find"
                     /\ UNCHANGED returned
    /\ UNCHANGED <<stream, processed_buffer_it, impVars, connVars, mgrVars, plugVars, tickVars, featVars, codecVars, exitVars>>

\* Lines 20-28, after the read or when the condition of line 14 is false:
\* no newline from the place already searched, so back to `while True`; or
\* the line before the first newline is cut off the buffer and returned
LoopFinds ==
    /\ \/ readline_pc = "find"
       \/ readline_pc = "loop" /\ ~(buffer = <<>> \/ processed_buffer_it # 0)
    /\ LET it == Find(buffer, processed_buffer_it)
       IN  IF it < 0
             THEN /\ processed_buffer_it' = Len(buffer)
                  /\ readline_pc' = "loop"
                  /\ UNCHANGED <<buffer, returned>>
             ELSE /\ returned' = Append(returned, ReturnedLine(LineAt(it)))
                  /\ buffer' = SubSeq(buffer, it + 2, Len(buffer))
                  /\ processed_buffer_it' = 0
                  /\ readline_pc' = "idle"
    /\ UNCHANGED <<stream, unread, reads, impVars, connVars, mgrVars, plugVars, tickVars, featVars, codecVars, exitVars>>

ReaderNext ==
    \/ Readline
    \/ LoopReads
    \/ \E n \in 0..MaxBytes : ReadReturns(n)
    \/ LoopFinds

(***************************************************************************)
(* Specifications                                                          *)
(***************************************************************************)
\* A reader over a stream the peer closed without sending a byte
ReaderIdle == stream = <<>> /\ ReaderInit
OtherInit == ConnectionInit /\ TaskManagerInit /\ PluginInit /\ ReaderIdle /\ NoOverrides /\ CodecIdle
Init == ImporterInit /\ BaseImporter /\ OtherInit
Next == ImpNext \/ RunsNext \/ CollectionNext \/ ConnNext \/ MgrNext \/ ShutdownNext \/ ReaderNext \/ TickNext \/ FeaturesNext \/ CodecNext
           \/ WaitClosedNext \/ ClosingNext
\* The Importer with its callers and its task manager
SpecImporter == Init /\ [][ImpNext]_vars

\* Importer and SynchroneousImporter, with cancellation by the task manager
\* A StreamLineReader with its caller and the peer's stream
StreamInit ==
    /\ ImporterInit /\ BaseImporter /\ ConnectionInit /\ TaskManagerInit /\ PluginInit
    /\ ReaderInit /\ NoOverrides /\ CodecIdle
SpecReader == StreamInit /\ [][ReaderNext]_vars

\* _parse_message applied to one object with jsonrpc "2.0"
EnvelopeInit ==
    /\ ImporterInit /\ BaseImporter /\ ConnectionInit /\ TaskManagerInit /\ PluginInit
    /\ ReaderIdle /\ NoOverrides /\ CodecInit
SpecCodec == EnvelopeInit /\ [][CodecNext]_vars

\* A plugin of any concrete class, and the get_capabilities requests
ClassInit ==
    /\ ImporterInit /\ BaseImporter /\ ConnectionInit /\ TaskManagerInit /\ PluginInit
    /\ ReaderIdle /\ FeaturesInit /\ CodecIdle
SpecFeatures == ClassInit /\ [][FeaturesNext]_vars

\* The Plugin's handshake and tick loop
SpecTick == Init /\ [][TickNext]_vars
\* The same under fair scheduling: the tick task and the handler of the
\* shutdown request take the steps they can take
SpecTickFair ==
    /\ SpecTick
    /\ WF_vars(\E out \in HookOutcomes : PassControl(out))
    /\ WF_vars(ShutdownSteps \/ WaitChecks)

RunsInit == ImporterInit /\ GatherOrLoop /\ OtherInit
SpecRuns == RunsInit /\ [][RunsNext]_vars
\* One run of a CollectionImporter, with cancellation by the task manager
CollectionInit == ImporterInit /\ CollectionImporter /\ OtherInit
SpecCollection == CollectionInit /\ [][CollectionNext]_vars

\* The same under fair scheduling: a coroutine that can take a step
\* eventually takes it, and every awaited get or prepare_context ends
SpecRunsFair ==
    /\ SpecRuns
    /\ \A r \in Calls : WF_vars(StartSteps(r)) /\ WF_vars(RunSteps(r))
\* The Connection with its outbound callers and the peer's Responses
SpecCorrelation == Init /\ [][CorrelationNext]_vars
\* The Connection with the peer's Requests, Notifications and broken lines,
\* and its handler tasks
SpecDispatch == Init /\ [][DispatchNext]_vars
\* The Connection with the peer's Requests, answered by handlers that return
\* any value
SpecRequests == Init /\ [][RequestsNext]_vars
\* The same with outbound requests that stay unanswered, for close()
SpecClose == Init /\ [][CloseNext]_vars
\* A TaskManager with callers that create tasks, cancel() and wait()
SpecTaskManager == Init /\ [][MgrNext]_vars
\* The same under the event loop's scheduling: every task that can take a
\* step is run, and every coroutine awaited by a task eventually ends
SpecTaskManagerFair ==
    /\ SpecTaskManager
    /\ \A t \in 0..MaxTasks : WF_vars(TaskSteps(t))
    /\ WF_vars(WaitChecks \/ WaitGathered)
\* The plugin with its external methods, closed and waited for
SpecWaitClosed == Init /\ [][WaitClosedNext]_vars
\* The plugin from start to shutdown
SpecShutdown == Init /\ [][ShutdownNext]_vars

\* The same under fair scheduling: every task of the event loop that can take
\* a step eventually takes one
SpecShutdownFair ==
    /\ SpecShutdown
    /\ \A t \in 0..MaxTasks : WF_vars(TaskSteps(t))
    /\ WF_vars(WaitChecks \/ WaitGathered)
    /\ WF_vars(ShutdownSteps)
    /\ WF_vars(InternalTaskSteps)

\* The plugin with external tasks, closed by the shutdown request, by its own
\* code and by the end of `async with`, once or again
SpecClosing == Init /\ [][ClosingNext]_vars

\* The Plugin's read loop, handshake and tick loop under fair scheduling:
\* as SpecTickFair, and run() resumes from its sleep(0). What the peer
\* sends, and whether it closes the stream, is up to the peer
SpecPluginFair ==
    /\ SpecTickFair
    /\ WF_vars(RunResumes)
    /\ WF_vars(InternalTaskStarts("shutdown") \/ InternalTaskEnds("shutdown"))

Spec == Init /\ [][Next]_vars

(***************************************************************************)
(* Importer: the Response of the start request and the run's notifications *)
(***************************************************************************)
\* C21 as claimed: the success Response of an accepted start request is
\* written before any success, failure or finished notification of the run
\* it started.
C21_ResponseBeforeNotifications ==
    \A k \in DOMAIN log :
        (log[k].ev \in {"success", "failure", "finished"} /\ call[log[k].run].how = "accepted")
            => log[k].responded

(***************************************************************************)
(* CollectionImporter: properties                                          *)
(***************************************************************************)
EventsOf(r, id, evs) == {k \in LogAt(r, evs) : log[k].id = id}

\* C25: in a CollectionImporter run that is not cancelled, an id has one
\* success notification per batch its sequence yielded, one failure
\* notification if and only if the sequence raised, and exactly one
\* partial-finished notification once its sequence has ended, after all of
\* the id's success and failure notifications; the run's single finished
\* notification comes after every id's partial-finished notification.
C25_CollectionNotifications ==
    \A r \in Calls : (variant = "collection" /\ Latest(r) /\ cancellation[r] = "no") =>
        LET fin == LogAt(r, {"finished"})
        IN  /\ \A i \in DOMAIN sequence[r] :
                  LET id == call[r].ids[i]
                  IN  /\ Cardinality(EventsOf(r, id, {"success"})) = sequence[r][i].yielded
                      /\ Cardinality(EventsOf(r, id, {"failure"})) =
                             (IF sequence[r][i].raised THEN 1 ELSE 0)
                      /\ Cardinality(EventsOf(r, id, {"partial_finished"})) =
                             (IF fetch[r][i] = "done" THEN 1 ELSE 0)
            /\ \A id \in IdsOf(r) :
                  /\ Cardinality(EventsOf(r, id, {"failure"})) <= 1
                  /\ Cardinality(EventsOf(r, id, {"partial_finished"})) <= 1
                  /\ \A p \in EventsOf(r, id, {"partial_finished"}) :
                        \A o \in OutcomesOf(r, id) : o < p
                  /\ \A f \in EventsOf(r, id, {"failure"}) :
                        \A o \in EventsOf(r, id, {"success"}) : o < f
            /\ Cardinality(fin) = (IF task[r] = "done" THEN 1 ELSE 0)
            /\ \A f \in fin :
                  /\ \A id \in IdsOf(r) :
                        /\ Cardinality(EventsOf(r, id, {"partial_finished"})) = 1
                        /\ \A p \in EventsOf(r, id, {"partial_finished"}) : p < f
                  /\ \A k \in LogAt(r, {"success", "failure", "partial_finished"}) : k < f

\* C25 witness: a run with two ids has ended without cancellation; two
\* batches and one failure were notified, and both ids' partial-finished
C25_Witness ==
    \E r \in Calls :
        /\ variant = "collection" /\ task[r] = "done" /\ cancellation[r] = "no"
        /\ Len(call[r].ids) = 2
        /\ Cardinality(LogAt(r, {"success"})) = 2
        /\ Cardinality(LogAt(r, {"failure"})) = 1
        /\ Cardinality(LogAt(r, {"partial_finished"})) = 2
        /\ Cardinality(LogAt(r, {"finished"})) = 1

(***************************************************************************)
(* Cancelled import runs: properties                                       *)
(***************************************************************************)
\* In this step no fetch of run r is started and none of the listed
\* callbacks of run r is invoked
NothingStarted(r) ==
    \A i \in DOMAIN fetch'[r] :
        fetch'[r][i] = "pending" => (i \in DOMAIN fetch[r] /\ fetch[r][i] = "pending")
NothingNotified(r, evs) ==
    \A k \in DOMAIN log' : (k > Len(log) /\ log'[k].run = r) => log'[k].ev \notin evs
AbandonedSilently(r) ==
    cancellation'[r] = "delivered" =>
        /\ NothingStarted(r)
        /\ NothingNotified(r, {"success", "failure", "finished", "complete"})

\* C26 as claimed: from the step in which the cancellation of a running
\* import is delivered, for every Importer variant, no further per-id fetch
\* is started, no success or failure notification is emitted, and neither
\* the finished notification nor the completion callback occurs.
C26_CancelledRunIsSilent == [][\A r \in Calls : AbandonedSilently(r)]_vars

\* The same for the variants that await a gather, which is where their
\* CancelledError is raised
GatherRunIsSilent == [][\A r \in Calls : variant # "sync" => AbandonedSilently(r)]_vars

\* A run of a SynchroneousImporter went on after its cancellation was
\* swallowed: it fetched the second id and notified its outcome and finished
CancelledRunWentOn ==
    \E r \in Calls :
        /\ variant = "sync" /\ cancellation[r] = "delivered" /\ task[r] = "done"
        /\ LogAt(r, {"success", "failure"}) # {} /\ LogAt(r, {"finished"}) # {}

\* C27 as claimed: after any accepted start() the in-progress flag is
\* eventually false again under fair scheduling, whatever happens to the
\* run, a cancellation of the import task before its first step included.
C27_FlagEventuallyCleared ==
    \A r \in Calls : (call[r].how = "accepted") ~> ~import_in_progress

\* The flag is cleared again unless an import task was cancelled before its
\* first step
FlagClearedUnlessNeverRun ==
    \A r \in Calls :
        (call[r].how = "accepted") ~> (~import_in_progress \/ \E q \in Calls : task[q] = "cancelled")

\* A start() was rejected after the only accepted run had ended, by
\* cancellation before its first step
RejectedAfterRunEnded ==
    \E r, q \in Calls :
        /\ task[r] = "cancelled" /\ cancellation[r] = "delivered"
        /\ q > r /\ call[q].how = "rejected" /\ call[q].exc = ImportInProgress

(***************************************************************************)
(* SynchroneousImporter: properties                                        *)
(***************************************************************************)
\* C28: in a SynchroneousImporter run at most one fetch is in flight; the
\* fetch of an id has been started only when the fetches of all the ids
\* before it have ended and their outcome notifications, if any, have been
\* emitted; outcome notifications appear in the order of the ids list, and
\* the single finished notification follows them.
C28_FetchesSequential ==
    \A r \in Calls : (variant = "sync" /\ Latest(r)) =>
        LET out == LogAt(r, {"success", "failure"})
            fin == LogAt(r, {"finished"})
        IN  /\ Cardinality({i \in DOMAIN fetch[r] : fetch[r][i] = "pending"}) <= 1
            /\ \A i \in DOMAIN fetch[r] : fetch[r][i] # "waiting" =>
                  /\ \A j \in 1..(i - 1) : fetch[r][j] = "done"
                  /\ cancellation[r] = "no" =>
                        \A j \in 1..(i - 1) : Cardinality(OutcomesOf(r, call[r].ids[j])) = 1
                  /\ \A j \in 1..(i - 1) : Cardinality(OutcomesOf(r, call[r].ids[j])) <= 1
            /\ \A i \in DOMAIN fetch[r] : fetch[r][i] # "done" => OutcomesOf(r, call[r].ids[i]) = {}
            /\ \A k1, k2 \in out : k1 < k2 =>
                  \E i1, i2 \in DOMAIN call[r].ids :
                      i1 < i2 /\ call[r].ids[i1] = log[k1].id /\ call[r].ids[i2] = log[k2].id
            /\ Cardinality(fin) = (IF task[r] = "done" THEN 1 ELSE 0)
            /\ \A f \in fin : \A o \in out : o < f

\* C28 witness: the second id's fetch is in flight, after the first id's
\* fetch has ended and its outcome has been notified
C28_Witness ==
    \E r \in Calls :
        /\ variant = "sync" /\ cancellation[r] = "no"
        /\ fetch[r] = <<"done", "pending">>
        /\ Len(log) = 1 /\ IsOutcome(log[1]) /\ log[1].run = r /\ log[1].id = call[r].ids[1]

(***************************************************************************)
(* StreamLineReader: properties                                            *)
(***************************************************************************)
\* The newline-terminated records of a byte string, in order: the bytes
\* between one newline (or the start) and the next
Newlines(bytes) == {k \in DOMAIN bytes : bytes[k] = LF}
NthNewline(bytes, n) ==
    CHOOSE k \in Newlines(bytes) : Cardinality({j \in Newlines(bytes) : j <= k}) = n
Records(bytes) ==
    [n \in 1..Cardinality(Newlines(bytes)) |->
        SubSeq(bytes, (IF n = 1 THEN 0 ELSE NthNewline(bytes, n - 1)) + 1,
                      NthNewline(bytes, n) - 1)]
\* The lines readline() returned before it first reported the end of the
\* stream
RECURSIVE LinesBeforeEof(_)
LinesBeforeEof(rets) ==
    IF rets = <<>> \/ Head(rets).eof THEN <<>>
    ELSE <<Head(rets).line>> \o LinesBeforeEof(Tail(rets))
Delivered == SubSeq(stream, 1, Len(stream) - Len(unread))

\* C22: for any byte stream and any cutting of it into chunks, the lines
\* readline() returns are the newline-terminated records of the stream, in
\* order, each once: at any time they are the first records of the bytes
\* delivered so far, the bytes not yet returned are kept in the buffer, and
\* when readline() reports the end of the stream every record has been
\* returned and the unterminated tail has not, nor is it on a later call.
C22_LinesAreRecords ==
    LET lines == LinesBeforeEof(returned)
        all == Records(stream)
        eofs == {k \in DOMAIN returned : returned[k].eof}
    IN  /\ Len(lines) <= Len(Records(Delivered))
        /\ \A k \in DOMAIN lines : lines[k] = all[k]
        /\ \A k \in DOMAIN returned : returned[k].eof \/ \A e \in eofs : k < e
        /\ eofs # {} => /\ lines = all
                        /\ unread = <<>>
                        /\ Newlines(buffer) = {}
        /\ readline_pc = "idle" /\ eofs = {} =>
              \/ lines = Records(Delivered)
              \/ Len(lines) < Len(Records(Delivered)) /\ Newlines(buffer) # {}

\* C22 witness: a stream of two records and an unterminated tail was
\* delivered in two chunks, the first cut inside the first record; readline()
\* returned the two records and then reported the end of the stream
C22_Witness ==
    /\ stream = <<"a", "a", LF, "a", LF, "a">>
    /\ reads = <<<<"a">>, <<"a", LF, "a", LF, "a">>, <<>>>>
    /\ returned = <<ReturnedLine(<<"a", "a">>), ReturnedLine(<<"a">>), ReturnedEof>>
    /\ buffer = <<"a">>

\* The returns of readline() that run() takes for the end of the stream:
\* `if not data: self._eof()` (jsonrpc.py 167-169) tests the value only
TakenForEof == {k \in DOMAIN returned : returned[k].line = <<>>}

\* C34 as claimed: readline() returns an empty value only at the end of the
\* stream, whatever the stream holds, empty records included: each empty
\* value returned is the report of the end of the stream, and every record
\* of the stream was returned before it, so that run() closes the
\* connection with no record left unread.
C34_EmptyOnlyAtEndOfStream ==
    \A k \in TakenForEof :
        /\ returned[k].eof
        /\ unread = <<>>
        /\ k - 1 = Len(Records(stream))

(***************************************************************************)
(* Properties of the Plugin: the tick loop                                 *)
(***************************************************************************)
\* tick() is called only after an initialize_cache request was handled and
\* only while the plugin is active
TickOnlyWhenReady == \A k \in DOMAIN tick_log : tick_log[k].cache /\ tick_log[k].active
\* The tick task has called tick() once it has taken its first step with
\* the plugin active, and it ends only when it finds the plugin closed
TickTaskTicks ==
    /\ internal_tasks.tick = "running" => tick_log # <<>>
    /\ internal_tasks.tick = "done" => ~plugin_active
    /\ internal_tasks.tick = "none" <=> handshake = "none"
\* Neither hook's exception stops a loop: the step that handles
\* initialize_cache creates the tick task and goes back to the read loop
\* whatever handshake_complete() did, and the step in which tick() raised
\* leaves the tick task running and the read loop where it was
HooksMayRaise ==
    /\ handshake = "none" /\ handshake' # "none" =>
          /\ internal_tasks'.tick = "created"
          /\ run_pc' = "top" /\ run_exc' = run_exc /\ active' = active
    /\ tick_log' # tick_log =>
          /\ internal_tasks'.tick = "running"
          /\ run_pc' = run_pc /\ run_exc' = run_exc /\ active' = active

\* C23: tick() is never called before an initialize_cache request has been
\* handled nor after the plugin has been closed; once one has been handled
\* the tick task calls it, as long as the plugin has not been closed; and an
\* exception raised by tick() or by handshake_complete() stops neither the
\* tick loop nor the read loop.
C23_TickLoop ==
    /\ [](TickOnlyWhenReady /\ TickTaskTicks)
    /\ [][HooksMayRaise]_vars
    /\ (handshake # "none") ~> (tick_log # <<>> \/ ~plugin_active)

\* C23 witness: handshake_complete() raised, tick() raised, and tick() was
\* called again; the read loop is still reading and the plugin is active
C23_Witness ==
    /\ handshake = "raised"
    /\ Len(tick_log) = 2 /\ tick_log[1].raised
    /\ internal_tasks.tick = "running"
    /\ run_pc = "read" /\ active /\ plugin_active

\* The tick task ended without a tick() call: the plugin was closed before
\* the task's first step
TickTaskNeverTicked ==
    internal_tasks.tick = "done" /\ tick_log = <<>>

(***************************************************************************)
(* Properties of the Plugin: features                                      *)
(***************************************************************************)
\* The features whose business methods are all among the names defined in
\* the concrete class
FeaturesOf(own) == {Detections[k][1] : k \in {j \in DOMAIN Detections : Detections[j][2] \subseteq own}}
Elements(list) == {list[k] : k \in DOMAIN list}

\* C24: the feature list every get_capabilities request returns holds, each
\* once, exactly the features whose business methods the concrete plugin
\* class itself defined when the plugin was constructed: none for a class
\* that overrides nothing, ImportOwnedGames alone for a class that overrides
\* only get_owned_games; and every request returns the same list.
C24_FeaturesAreOverrides ==
    /\ features = FeaturesOf(dict_at_init)
    /\ Cardinality(capabilities) <= 1
    /\ \A result \in capabilities :
          /\ Elements(result.features) = FeaturesOf(dict_at_init)
          /\ Len(result.features) = Cardinality(FeaturesOf(dict_at_init))
          /\ dict_at_init \cap BusinessMethods = {} => result.features = <<>>
          /\ dict_at_init = {"get_owned_games"} => result.features = <<"ImportOwnedGames">>

\* C24 witness: the class defined only get_owned_games when the plugin was
\* constructed, a class above it overrides get_friends, get_game_time was
\* added to the class later; a request returned [ImportOwnedGames]
C24_Witness ==
    /\ dict_at_init = {"get_owned_games"}
    /\ base_dict = {"get_friends"}
    /\ class_dict = {"get_owned_games", "get_game_time"}
    /\ capabilities = {[platform_name |-> "generic", features |-> <<"ImportOwnedGames">>,
                        token |-> "token"]}

(***************************************************************************)
(* Properties of the Connection: Responses to outbound requests            *)
(***************************************************************************)
\* The id of a Response line is one send_request has assigned
Assigned(line) ==
    /\ "id" \in line.env.keys
    /\ \E n \in 1..last_request_id : IdDenotes(line.env.id, n)
\* This step is run() reading a line and dispatching it
Dispatches == nread' = nread + 1
\* What a Response carries: its result ({} when it has no result member)
\* and the error value built from its error member
ResultOf(env) == IF "result" \in env.keys THEN env.result ELSE ResultDefault
ErrorOf(env) ==
    WireError(IF "code" \in env.error.keys THEN env.error.code ELSE 0,
              IF "message" \in env.error.keys THEN env.error.message ELSE "",
              IF "data" \in env.error.keys THEN env.error.data ELSE NoData)

\* C5: whatever the order in which the Responses arrive, a caller of
\* send_request is resumed only once a Response with its own id was read,
\* and with the result or the error of that Response, never with what a
\* Response with another id carried. (Whether it is the result or the error
\* that the caller gets is C8's matter.)
C5_CallerGetsOwnResponse ==
    \A n \in DOMAIN caller : caller[n].state # "awaiting" =>
        /\ answered[n] # NoEnvelope
        /\ caller[n].state = "result" => caller[n].result = ResultOf(answered[n])
        /\ caller[n].state = "exception" => caller[n].error = ErrorOf(answered[n])

\* C5 witness: requests 1 and 2 were sent, the Response to 2 was read first
\* and the Response to 1 last, and each caller has its own, different result
C5_Witness ==
    /\ last_request_id = 2 /\ nread = 2
    /\ IsResponseLine(run_data) /\ run_data.env.id = StrId(Str(1))
    /\ caller[1].state = "result" /\ caller[2].state = "result"
    /\ caller[1].result = "a" /\ caller[2].result = "{b}"
    /\ answered[2].result = "{b}"

\* C6 as claimed: the correlation table only ever holds ids whose Response
\* has not yet arrived, and a second Response with the same id is dropped
\* without settling the same future again (nothing is raised).
C6_TableHoldsOnlyUnanswered ==
    /\ \A n \in DOMAIN requests_futures : answered[n] = NoEnvelope
    /\ run_exc # InvalidStateError

\* C7 as claimed: reading a Response whose id was never assigned (an unused
\* number, a non-numeric string, or no id) raises nothing out of the
\* dispatch, does not stop the read loop, settles no future and leaves the
\* correlation table unchanged.
C7_UnknownResponseIsNoOp ==
    [][(Dispatches /\ IsResponseLine(run_data') /\ ~Assigned(run_data')) =>
          /\ run_exc' = NoExc /\ run_pc' = "top"
          /\ requests_futures' = requests_futures]_vars

\* C8 as claimed: once a Response with a known id was read, the future is
\* rejected with the error value built from the error member when the
\* envelope has one (whatever fields it has or lacks), and resolved with
\* exactly the result when it has a result instead.
C8_ErrorMemberRejects ==
    \A n \in DOMAIN requests_futures : answered[n] # NoEnvelope =>
        /\ "error" \in answered[n].keys =>
              /\ requests_futures[n].state = "exception"
              /\ requests_futures[n].error = ErrorOf(answered[n])
        /\ "error" \notin answered[n].keys =>
              /\ requests_futures[n].state = "result"
              /\ requests_futures[n].result = answered[n].result

\* C13 as claimed: the sensitive_params descriptor affects log text only:
\* in every state, dispatching the same Response to an outstanding request
\* has the same effect (future settled, exception raised, messages written,
\* tasks) whatever descriptor the request was sent with.
C13_DescriptorAffectsLogOnly ==
    \A n \in DOMAIN requests_futures : \A line \in ResponseLines :
        ("id" \in line.env.keys /\ IdDenotes(line.env.id, n)) =>
            \A sp1, sp2 \in Descriptors :
                SettleWith(sp1, Unchanged, n, Response(line.env))
                    = SettleWith(sp2, Unchanged, n, Response(line.env))

\* C14: the ids send_request issues are 1, 2, 3, ... in call order: the k-th
\* Request written carries the id str(k), so no id is issued twice, whatever
\* Responses were read in between; and every issued id has its correlation
\* entry from the moment its Request is written.
RequestsWritten == SelectSeq(written, LAMBDA m : m.type = "request")
C14_IdsCountUp ==
    /\ Len(RequestsWritten) = last_request_id
    /\ \A k \in DOMAIN RequestsWritten : RequestsWritten[k].id = StrId(Str(k))
    /\ DOMAIN requests_futures = 1..last_request_id

\* C14 witness: two requests were sent with a Response to the first read in
\* between, and the second got the id 2
C14_Witness ==
    /\ last_request_id = 2 /\ nread >= 1
    /\ answered[1] # NoEnvelope /\ answered[2] = NoEnvelope
    /\ requests_futures[1].state = "result" /\ requests_futures[2].state = "pending"
    /\ RequestsWritten[2].id = StrId(<<"2">>)

(***************************************************************************)
(* Properties of the Connection: inbound lines                             *)
(***************************************************************************)
\* A line that is malformed JSON, JSON that is no object, or an object
\* violating the envelope schema
IsBrokenLine(line) == line.kind \in {"malformed", "nonobject"} \/ line \in InvalidLines
IsNotificationLine(line) == line \in NotificationLines
ReservedCodes == -32768..-32000

\* C9 as claimed: reading a broken line writes one error Response with a
\* code in the reserved range, and the read loop goes on.
C9_BrokenLineAnswered ==
    [][(Dispatches /\ IsBrokenLine(run_data')) =>
          /\ run_pc' = "top"
          /\ Len(written') = Len(written) + 1
          /\ written'[Len(written')].type = "error"
          /\ written'[Len(written')].error.code \in ReservedCodes]_vars

\* C10 as claimed: nothing is ever written in reply to a Notification,
\* whether its method is unknown, its parameters fail to bind or its handler
\* raises, and the read loop continues after it.
C10_NotificationNeverAnswered ==
    [][/\ \A k \in DOMAIN written' : written'[k].reply_to # "notification"
       /\ (Dispatches /\ IsNotificationLine(run_data')) =>
              (written' = written /\ run_pc' = "top")]_vars

\* What a parse comes to: the error raised, or the kind of the message as
\* _handle_input tells them apart (a Request with id None is a Notification)
ClassOf(r) ==
    IF r.exc = InvalidRequest THEN "InvalidRequest"
    ELSE IF r.exc # NoExc THEN "Error"
    ELSE IF r.msg.type = "Response" THEN "Response"
    ELSE IF r.msg.id # NullId THEN "Request"
    ELSE "Notification"

\* C32: every object with jsonrpc "2.0" is classified, and in one way only.
\* With `result` or `error` it is a Response, keeping its id and result, or
\* InvalidRequest when it also has `method`, `params` or an unknown member;
\* otherwise with `method` and no unknown member it is a Request when it has
\* an id that is not null and a Notification when it has no id or a null
\* one, with its params, the empty mapping when absent; every other object
\* fails with InvalidRequest.
C32_ClassificationTotal ==
    parse_result # Unparsed =>
        LET env == parse_data.env
            members == env.keys \ {"jsonrpc"}
            msg == parse_result.msg
        IN  /\ \/ parse_result.exc = NoExc /\ msg.type \in {"Request", "Response"}
               \/ parse_result.exc = InvalidRequest /\ msg = NoMessage
            /\ IF members \cap {"result", "error"} # {}
                   THEN IF members \cap {"method", "params", "extra"} # {}
                            THEN ClassOf(parse_result) = "InvalidRequest"
                            ELSE /\ ClassOf(parse_result) = "Response"
                                 /\ msg.id = (IF "id" \in members THEN env.id ELSE NullId)
                                 /\ "result" \in members => msg.result = env.result
                                 /\ msg.method = ""
                ELSE IF "method" \in members /\ "extra" \notin members
                   THEN /\ ClassOf(parse_result) =
                              (IF "id" \in members /\ env.id # NullId THEN "Request" ELSE "Notification")
                        /\ msg.method = env.method
                        /\ msg.id = (IF "id" \in members THEN env.id ELSE NullId)
                        /\ msg.params = (IF "params" \in members THEN env.params ELSE Params(TRUE, {}))
                        /\ msg.result = ResultDefault /\ msg.error = EmptyObject
                ELSE ClassOf(parse_result) = "InvalidRequest"

\* C32 witness: an object with `method` and a null `id` and no `params` was
\* parsed: a Notification with empty params
C32_Witness ==
    /\ parse_result # Unparsed
    /\ parse_data.env.keys = {"jsonrpc", "id", "method"}
    /\ parse_data.env.id = NullId
    /\ ClassOf(parse_result) = "Notification"
    /\ parse_result.msg.params = Params(TRUE, {})

(***************************************************************************)
(* Properties of the Connection: inbound Requests                          *)
(***************************************************************************)
\* A Request line for a registered method whose params do not bind to the
\* handler's signature
IsUnbindableRequest(line) ==
    /\ line \in RequestLines
    /\ line.env.method \in DOMAIN methods
    /\ ~Binds(methods[line.env.method], Request(line.env).params)

\* C11 as claimed: dispatching a Request whose params do not bind writes
\* exactly one error Response, InvalidParams with the request's id, and the
\* read loop continues (immediate or deferred method alike); nothing more is
\* ever written for that request.
C11_UnbindableRequestAnsweredOnce ==
    [][/\ (Dispatches /\ IsUnbindableRequest(run_data')) =>
              /\ run_pc' = "top"
              /\ written' = Append(written, Written("error", run_data'.env.id, ResultNone,
                                                    WireError(-32602, "Invalid params", NoData),
                                                    "request"))
       /\ \A t \in DOMAIN conn_tasks :
              (~conn_tasks[t].bound /\ t \notin DOMAIN conn_tasks') => written' = written]_vars

\* The Response the outcome of a deferred handler calls for
AnswersOutcome(m, out) ==
    IF out.kind = "return" THEN m.type = "result" /\ m.result = out.value
    ELSE /\ m.type = "error"
         /\ IF out.exc.cls = "NotImplementedError"
                THEN m.error.code = -32601 /\ m.error.message = "Method not found"
            ELSE IF out.exc.cls = "ApplicationError"
                THEN /\ m.error.code = out.exc.code /\ m.error.message = out.exc.message
                     /\ m.error.data = out.exc.data
            ELSE IF out.exc.cls = "CancelledError"
                THEN m.error.code = -32001 /\ m.error.message = "Method aborted"
            ELSE /\ m.error.code = 0 /\ m.error.message = "Unknown error"
                 /\ m.error.data = out.exc.str

Responses(sent) == {k \in DOMAIN sent : sent[k].reply_to = "request"}
Pending(tasks) == {t \in DOMAIN tasks : tasks[t].kind = "request"}
Accounted(sent, tasks) == Cardinality(Responses(sent)) + Cardinality(Pending(tasks))

\* C33 as claimed: every inbound Request that is dispatched gets exactly one
\* Response with its id, never none and never two, whatever its dispatch
\* path and whatever its handler returns: the dispatch of a Request either
\* writes its one Response or leaves one handler task that will, the end of
\* such a task writes its one Response, and no other step writes a Response
\* or drops a task. run() goes on after the dispatch.
C33_EachRequestAnsweredOnce ==
    [][/\ (Dispatches /\ run_data' \in RequestLines) =>
              /\ Accounted(written', conn_tasks') = Accounted(written, conn_tasks) + 1
              /\ run_pc' = "top"
       /\ ~Dispatches => Accounted(written', conn_tasks') = Accounted(written, conn_tasks)
       /\ \A k \in Responses(written') \ Responses(written) :
              \/ Dispatches /\ written'[k].id = run_data'.env.id
              \/ \E t \in Pending(conn_tasks) \ Pending(conn_tasks') : written'[k].id = conn_tasks[t].id]_vars

\* This step dispatches a line while handler tasks are in flight: they stay
\* as they are, what was written stays, and a task created for the line
\* gets the next task id
DispatchBesideTasks ==
    /\ \A t \in DOMAIN conn_tasks : t \in DOMAIN conn_tasks' /\ conn_tasks'[t] = conn_tasks[t]
    /\ Len(written') >= Len(written)
    /\ SubSeq(written', 1, Len(written)) = written
    /\ \A t \in DOMAIN conn_tasks' \ DOMAIN conn_tasks :
          /\ t = task_counter
          /\ \A k \in DOMAIN conn_tasks : k < t

\* C31: a suspended deferred handler never blocks dispatch. Whatever handler
\* tasks are in flight, run() in its read can read and dispatch a further
\* Request or Notification, and the dispatch of any line leaves the tasks in
\* flight untouched; any task in
\* flight, not only the oldest, can be the next to end, and the task of a
\* Request then appends its Response to what was written, so the Response
\* of a later Request can precede the one of an earlier Request.
C31_SuspendedHandlerNeverBlocks ==
    /\ [](/\ (run_pc = "read" /\ nread < MaxReads) =>
                \A line \in DeferredLines : ENABLED ReadLine(line, Return)
          /\ \A t \in DOMAIN conn_tasks : ENABLED HandlerTaskEnds(t, Return))
    /\ [][/\ Dispatches => DispatchBesideTasks
          /\ \A t \in DOMAIN conn_tasks :
                 (t \notin DOMAIN conn_tasks' /\ conn_tasks[t].kind = "request") =>
                     /\ Len(written') = Len(written) + 1
                     /\ SubSeq(written', 1, Len(written)) = written
                     /\ written'[Len(written')].id = conn_tasks[t].id
                     /\ conn_tasks' = [k \in DOMAIN conn_tasks \ {t} |-> conn_tasks[k]]]_vars

\* C31 witness: two deferred Requests were read; the handler of the first is
\* still suspended, the handler of the second has returned and its Response
\* is written
C31_Witness ==
    /\ nread = 2
    /\ task_counter = 2
    /\ DOMAIN conn_tasks = {0}
    /\ conn_tasks[0].kind = "request"
    /\ conn_tasks[0].bound
    /\ \E i \in 1..Len(written) :
          /\ written[i].reply_to = "request"
          /\ written[i].type = "result"
          /\ written[i].cause.kind = "return"

(***************************************************************************)
(* Properties of the Connection: lifecycle                                 *)
(***************************************************************************)
\* A step of close() alone: only the flag changes
OnlyFlagChanges ==
    UNCHANGED <<run_pc, run_exc, last_request_id, requests_futures, requests_sensitive, caller,
                conn_tasks, task_counter, written, nread, run_data, answered>>

\* C18: the connection goes from Active to Closed only. It closes on an
\* empty read or a failed read (which also end run()) or on close(); a
\* closed connection never becomes active again; run() returns only on a
\* closed connection, and once closed its loop test does not read again but
\* returns.
C18_ActiveToClosedOnly ==
    [][/\ ~active => ~active'
       /\ (active /\ ~active') =>
              \/ run_pc = "read" /\ run_pc' = "returned" /\ nread' = nread
              \/ OnlyFlagChanges
       /\ (run_pc = "read" /\ nread' = nread /\ run_pc' # run_pc) =>
              (~active' /\ run_pc' = "returned")
       /\ (~active /\ run_pc = "top" /\ run_pc' # run_pc) => run_pc' = "returned"
       /\ run_pc' = "returned" => ~active']_vars

\* close() was called while run() was suspended in its read; the read then
\* returned a line, and run() returned at its next loop test
C18_Witness ==
    /\ ~active
    /\ run_pc = "returned"
    /\ nread >= 1
    /\ run_data # EmptyLine

\* C19 as claimed: on a closed connection no line is dispatched: a line
\* that arrives after close(), while run() was suspended in its read, is not
\* parsed, handed to a handler or answered.
C19_NoDispatchOnceClosed ==
    [][~active => ~Dispatches]_vars

\* This step is close() closing an active connection: called from outside,
\* or by _eof() after an empty or a failed read
ClosedByClose == active /\ ~active'
\* This step is the end of the handler task t of a deferred Request, which
\* writes the Response to it and nothing else
EndsWithResponse(t) ==
    /\ t \notin DOMAIN conn_tasks'
    /\ conn_tasks' = [k \in DOMAIN conn_tasks \ {t} |-> conn_tasks[k]]
    /\ Len(written') = Len(written) + 1
    /\ SubSeq(written', 1, Len(written)) = written
    /\ written'[Len(written')].id = conn_tasks[t].id
    /\ written'[Len(written')].reply_to = "request"
    /\ written'[Len(written')].type \in {"result", "error"}

\* C30: close() changes only the Active/Closed state: the step leaves the
\* handler tasks of the Connection's task manager and its task counter, the
\* last issued request id, the correlation table with its unsettled futures
\* and what was written as they were (the method and notification
\* registries are fixed once the Connection is set up). No handler task is
\* cancelled: on a closed connection a handler task leaves the task manager
\* only by running to its end, one task at a time, and the task of a
\* deferred Request then writes its Response.
C30_CloseChangesOnlyState ==
    [][/\ ClosedByClose =>
              /\ UNCHANGED <<conn_tasks, task_counter, last_request_id, requests_futures,
                             requests_sensitive, caller, written>>
              /\ \A n \in DOMAIN requests_futures :
                     requests_futures'[n].state = requests_futures[n].state
       /\ (~active /\ conn_tasks' # conn_tasks /\ ~Dispatches) =>
              \E t \in DOMAIN conn_tasks :
                  IF conn_tasks[t].kind = "request"
                      THEN EndsWithResponse(t)
                      ELSE /\ conn_tasks' = [k \in DOMAIN conn_tasks \ {t} |-> conn_tasks[k]]
                           /\ written' = written]_vars

\* C30 witness: close() was called while run() was suspended in its read,
\* the handler task of the one Request read was in flight and an outbound
\* request was unanswered; the task has since ended and its Response is
\* written, the future is still pending in the table, and run() is still in
\* its read.
C30_Witness ==
    /\ ~active
    /\ run_pc = "read"
    /\ nread = 1
    /\ task_counter = 1
    /\ at_close = 1
    /\ conn_tasks = <<>>
    /\ \E i \in 1..Len(written) :
          /\ written[i].reply_to = "request"
          /\ written[i].type = "result"
          /\ written[i].cause.kind = "return"
    /\ last_request_id >= 1
    /\ \E n \in DOMAIN requests_futures : requests_futures[n].state = "pending"

(***************************************************************************)
(* Properties of the TaskManager                                           *)
(***************************************************************************)
\* C15: wait() returns only in a state where nothing is registered, also
\* when tasks running during the wait registered further tasks; it does not
\* return while a task created during the wait is still live.
C15_WaitReturnsOnEmpty ==
    [][(wait_pc # "returned" /\ wait_pc' = "returned") =>
          /\ mgr_tasks' = {}
          /\ \A t \in DOMAIN mgr_task' :
                mgr_task'[t].in_wait => mgr_task'[t].state = "done"]_vars

\* C15 witness: wait() has returned, and a task created while it was waiting
\* has run and ended before that
C15_Witness ==
    /\ wait_pc = "returned"
    /\ \E t \in DOMAIN mgr_task :
          mgr_task[t].in_wait /\ mgr_task[t].state = "done" /\ mgr_task[t].result = "returned"

\* C16 as claimed: the live set never retains a task that is done, however
\* the task ended (return, exception, cancellation at any point of its life,
\* also between create_task and its first step).
C16_NoDoneTaskRegistered ==
    \A t \in mgr_tasks : mgr_task[t].state # "done"

\* C17 as claimed: after cancel() and then wait(), wait() eventually returns
\* with nothing registered.
C17_CancelThenWaitDrains ==
    (wait_after_cancel /\ wait_pc # "idle") ~> (wait_pc = "returned" /\ mgr_tasks = {})

\* What awaiting the handle of a task that is done gives: the coroutine's
\* result, nothing (None), or an exception
AwaitGivesResult(t) == mgr_task[t].result = "returned"
AwaitGivesNothing(t) == mgr_task[t].result = "absorbed"
AwaitRaises(t) == mgr_task[t].result \in {"raised", "cancelled"}

\* C29 as claimed: awaiting the handle of a task created with
\* handle_exceptions=true never raises, whatever the coroutine's end, a
\* cancellation included; with handle_exceptions=false an awaiter gets the
\* result or the exception; a task whose result was delivered is
\* deregistered.
C29_HandleExceptions ==
    \A t \in DOMAIN mgr_task : mgr_task[t].state = "done" =>
        /\ mgr_task[t].handle_exceptions => (AwaitGivesResult(t) \/ AwaitGivesNothing(t))
        /\ ~mgr_task[t].handle_exceptions => (AwaitGivesResult(t) \/ AwaitRaises(t))
        /\ AwaitGivesResult(t) => t \notin mgr_tasks

\* The same for the tasks that took their first step: a task with
\* handle_exceptions whose handle raises is one that never ran, cancelled
\* and still registered
AbsorbedOnceStarted ==
    \A t \in DOMAIN mgr_task : mgr_task[t].state = "done" =>
        /\ (mgr_task[t].handle_exceptions /\ AwaitRaises(t)) =>
              (mgr_task[t].result = "cancelled" /\ t \in mgr_tasks)
        /\ ~mgr_task[t].handle_exceptions => (AwaitGivesResult(t) \/ AwaitRaises(t))
        /\ AwaitGivesResult(t) => t \notin mgr_tasks

\* A task created with handle_exceptions=true is done and awaiting it raises
\* CancelledError
AwaitOfHandledTaskRaises ==
    \E t \in DOMAIN mgr_task :
        mgr_task[t].state = "done" /\ mgr_task[t].handle_exceptions /\ mgr_task[t].result = "cancelled"

(***************************************************************************)
(* Properties of the Plugin: shutdown                                      *)
(***************************************************************************)
\* The first step of the shutdown handler, and the step writing its Response
ShutdownHandlerStarts == shutdown_pc = "created" /\ shutdown_pc' # "created"
ShutdownResponseWritten == shutdown_pc # "answered" /\ shutdown_pc' = "answered"

\* C20 as claimed: on a shutdown request the plugin closes the connection,
\* requests cancellation of every external task and creates the task that
\* invokes the teardown hook; the Response {id, result: null} is written only
\* after the wait on the external manager returned and the hook's task
\* ended; and under fair scheduling the Response is eventually written.
C20_ShutdownAnswered ==
    /\ [][ShutdownHandlerStarts =>
              /\ ~active' /\ ~plugin_active'
              /\ \A t \in mgr_tasks' : mgr_task'[t].state # "done" => mgr_task'[t].must_cancel
              /\ internal_tasks'.shutdown # "none"]_vars
    /\ [][ShutdownResponseWritten =>
              /\ wait_pc = "returned"
              /\ internal_tasks.shutdown = "done"
              /\ written' = Append(written,
                     Written("result", ShutdownId, "null", NoError, "request"))]_vars
    /\ (shutdown_pc = "created") ~> (shutdown_pc = "answered")

\* The safety part of C20 alone
ShutdownOrder ==
    /\ [][ShutdownHandlerStarts =>
              /\ ~active' /\ ~plugin_active'
              /\ \A t \in mgr_tasks' : mgr_task'[t].state # "done" => mgr_task'[t].must_cancel
              /\ internal_tasks'.shutdown # "none"]_vars
    /\ [][ShutdownResponseWritten =>
              /\ wait_pc = "returned"
              /\ internal_tasks.shutdown = "done"]_vars

\* A shutdown that was answered after external tasks were cancelled
ShutdownAnsweredAfterCancel ==
    /\ shutdown_pc = "answered"
    /\ \E t \in DOMAIN mgr_task : mgr_task[t].result \in {"cancelled", "absorbed"}

(***************************************************************************)
(* Properties of the Plugin: close(), wait_closed() and the end of run()   *)
(***************************************************************************)
\* The step in which wait_closed() returns
WaitClosedReturns == wait_closed_pc # "returned" /\ wait_closed_pc' = "returned"

\* No task is registered in the external, the internal or the Connection's
\* task manager
AllDrained ==
    /\ mgr_tasks = {}
    /\ \A name \in DOMAIN internal_tasks : internal_tasks[name] \in {"none", "done"}
    /\ conn_tasks = <<>>

\* C35 as claimed: when wait_closed() returns after close(), no task is
\* registered in any of the three task managers, whatever the state the
\* plugin was in at close(): with a handler task created and not yet run,
\* or suspended in its await.
C35_AllDrainedWhenWaitClosedReturns == [][WaitClosedReturns => AllDrained']_vars

\* run() is over
RunOver == run_pc \in {"returned", "raised"}

\* C36 as claimed: once the plugin is closed, by the handler of the shutdown
\* request or by a close() call, run() eventually returns under fair
\* scheduling, whether or not the peer sends another line or closes the
\* stream.
C36_RunReturnsOnceClosed == (~plugin_active) ~> RunOver

\* The part of it about the shutdown request: once its handler has closed
\* the plugin, run() returns
RunReturnsAfterShutdown == (shutdown_pc \notin {"idle", "created"}) ~> RunOver

\* The first close(): the step that closes the plugin
FirstClose == plugin_active /\ ~plugin_active'

\* close() is called on a plugin that is closed already: by the handler of
\* a shutdown request, or by another caller
LaterClose ==
    /\ ~plugin_active
    /\ \/ shutdown_pc = "created" /\ shutdown_pc' = "wait_external"
       \/ closed_again' # closed_again

\* C37: close() is idempotent. The task of the hook shutdown() is created
\* by the first close() only, so the hook is started once; cancel() is
\* issued on the external manager by the first close() only; the plugin is
\* never reopened; and a close() on a closed plugin changes neither the
\* state of the plugin or the connection nor the tasks of a task manager.
C37_CloseIsIdempotent ==
    [][/\ (internal_tasks'.shutdown = "created" /\ internal_tasks.shutdown # "created")
            => (FirstClose /\ internal_tasks.shutdown = "none")
       /\ (\E t \in DOMAIN mgr_task : mgr_task'[t].must_cancel /\ ~mgr_task[t].must_cancel)
            => FirstClose
       /\ cancel_called' # cancel_called => FirstClose
       /\ ~plugin_active => ~plugin_active'
       /\ LaterClose => UNCHANGED <<active, plugin_active, internal_tasks, mgr_tasks, mgr_task,
                                    mgr_task_counter, cancel_called, conn_tasks, task_counter>>]_vars

\* close() was called twice on the closed plugin after the hook's task had
\* ended, with an external task created since the first close() that is
\* not cancelled
C37_Witness ==
    /\ closed_again = 2
    /\ internal_tasks.shutdown = "done"
    /\ shutdown_pc \notin {"idle", "created"}
    /\ \E t \in mgr_tasks : mgr_task[t].state = "suspended" /\ ~mgr_task[t].must_cancel

====
